---- MODULE Spec2Model ----
(***************************************************************************)
(* Model of cloudflare-speedtest: the probing engine (src/ip_tester.py),    *)
(* the address and endpoint generator (src/cloudflare_ips.py) and the run   *)
(* of the application (src/main.py).                                        *)
(*                                                                         *)
(* Seven specifications share the module:                                  *)
(*   Spec      one call of BatchIPTester.test_ips: the submitting and       *)
(*             collecting thread, the pool's workers, the progress callback.*)
(*   FairSpec  the same under fair scheduling of its threads.               *)
(*   SpecTcp   one call of IPTester.test_tcp_delay, one step per socket     *)
(*             operation, for every retry budget 0..MaxRetries.             *)
(*   SpecSpeed one call of IPTester.test_download_speed, one step per       *)
(*             candidate target.                                            *)
(*   SpecApp   one call of BatchIPTester.filter_best_ips, made directly or  *)
(*             by CloudflareSpeedTestApp.run, and that run to its exit.     *)
(*   SpecSelect a call of test_ips followed by filter_best_ips on the list  *)
(*             it returned, as run() calls them.                           *)
(*   SpecGen   one call of a method of CloudflareCDNProvider, or the step   *)
(*             of run() that obtains the endpoints from the provider.      *)
(*                                                                         *)
(* Python's Optional[T] is a sequence of length <= 1: None is <<>> and a   *)
(* present value v is <<v>>, so that an empty string or a zero that is     *)
(* present differs from None.  Error texts are the code's, in English.     *)
(* An address string is the sequence of its four octets.                   *)
(***************************************************************************)
EXTENDS Integers, Sequences, FiniteSets, TLC

VARIABLES
    \* ---- BatchIPTester.test_ips (Spec) ----
    ip_list,            \* argument: the sequence of locations
    test_speed,         \* argument
    custom_speed_url,   \* argument: Optional[str], a string is a sequence of characters
    progress_callback,  \* argument: TRUE iff a callback is supplied
    max_workers,        \* self.max_workers
    pc,                 \* position of the thread running test_ips
    futures,            \* futures[i]: the future of the i-th submit and the task behind it
    yielded,            \* futures that as_completed has handed to the loop
    results,            \* the local list `results`
    completed,          \* the local counter `completed`
    current,            \* the future whose completion is being handled by the callback
    calls,              \* the invocations of progress_callback, in order
    returned,           \* Optional: the list test_ips returned
    \* ---- IPTester.test_tcp_delay (SpecTcp) ----
    tcp,                \* the frame of one test_tcp_delay call
    \* ---- IPTester.test_download_speed (SpecSpeed) ----
    speed,              \* the frame of one test_download_speed call
    \* ---- BatchIPTester.filter_best_ips and CloudflareSpeedTestApp.run (SpecApp) ----
    flt,                \* the frame of one filter_best_ips call
    app,                \* the frame of one run() call
    \* ---- CloudflareCDNProvider (SpecGen) ----
    gen                 \* the frame of one call of a method of the provider

batchVars == <<ip_list, test_speed, custom_speed_url, progress_callback, max_workers,
               pc, futures, yielded, results, completed, current, calls,
               returned>>
tcpVars == <<tcp>>
speedVars == <<speed>>
appVars == <<flt, app>>
genVars == <<gen>>
vars == <<batchVars, tcpVars, speedVars, appVars, genVars>>
\* What a step of test_ips, of test_tcp_delay, of test_download_speed, of run()
\* or filter_best_ips, and of the provider leaves alone.
nonBatchVars == <<tcpVars, speedVars, appVars, genVars>>
nonTcpVars == <<batchVars, speedVars, appVars, genVars>>
nonSpeedVars == <<batchVars, tcpVars, appVars, genVars>>
nonAppVars == <<batchVars, tcpVars, speedVars, genVars>>
nonGenVars == <<batchVars, tcpVars, speedVars, appVars>>

None == <<>>
Some(v) == <<v>>

\* ------------------------------------------------------------------------
\* Bounds of the model
\* ------------------------------------------------------------------------
MaxEndpoints == 2
MaxWorkers == 2
MaxRetries == 2
MaxResults == 3
MaxQuota == 22

\* ------------------------------------------------------------------------
\* Program constants
\* ------------------------------------------------------------------------
DefaultRetries == 2
min_size == 100
target_size == 5120

\* The environment's values: measured delays (ms), download sizes (KB), elapsed
\* times, HTTP statuses, and the texts str(e) of the exceptions that occur.
Delays == {20}
ExceptionTexts == {"", "boom"}
CallbackExceptionTexts == {"callback failed"}
Ips == <<"1.1.1.1", "1.0.0.1">>
Port == 443

\* The argument ip_list with n locations: their addresses alternate between the
\* two of Ips, so that a list of three or more names an address twice.
Locations(n) == [i \in 1..n |-> [ip |-> Ips[((i - 1) % Len(Ips)) + 1], port |-> Port]]

RECURSIVE SeqsUpTo(_, _)
SeqsUpTo(S, n) ==
    IF n = 0 THEN {<<>>}
    ELSE LET shorter == SeqsUpTo(S, n - 1)
         IN  shorter \cup {Append(s, x) : s \in {q \in shorter : Len(q) = n - 1}, x \in S}

SeqsOfLen(S, n) == {s \in SeqsUpTo(S, n) : Len(s) = n}

\* ------------------------------------------------------------------------
\* TestResult
\* ------------------------------------------------------------------------
TestResult(ip, port) ==
    [ip |-> ip, port |-> port, tcp_delay |-> None, download_speed |-> None,
     success |-> FALSE, error |-> None]

\* ------------------------------------------------------------------------
\* IPTester.test_tcp_delay
\* ------------------------------------------------------------------------
\* What one connection attempt can end in.  "nosocket": socket.socket() itself
\* raised OSError, so `sock` stayed None.  "exception": anything that is not an
\* OSError, with its text.
AttemptOutcomes ==
    {[kind |-> k, delay |-> 0, text |-> ""] : k \in {"timeout", "refused", "oserror", "nosocket"}}
    \cup {[kind |-> "connected", delay |-> d, text |-> ""] : d \in Delays}
    \cup {[kind |-> "exception", delay |-> 0, text |-> x] : x \in ExceptionTexts}

\* The except clauses of one loop iteration: the new last_error and where control
\* goes: "return" (line 71), "continue" (lines 78, 88), "break" (lines 82, 91) or
\* "fall" (the handler ends and the loop statement takes the next value of range).
HandleAttemptNoRefusalBreak(attempt, retries, last_error, o) ==
    CASE o.kind = "connected" -> [last_error |-> last_error, ctl |-> "return"]
      [] o.kind \in {"timeout", "refused"} ->
            [last_error |-> Some(IF o.kind = "timeout" THEN "connect timeout"
                                 ELSE "connection refused"),
             ctl |-> IF attempt < retries THEN "continue" ELSE "fall"]
      [] o.kind \in {"oserror", "nosocket"} ->
            [last_error |-> Some("network error"),
             ctl |-> IF attempt < retries THEN "continue" ELSE "fall"]
      [] OTHER -> [last_error |-> Some(o.text), ctl |-> "break"]

HandleAttemptTimeoutBreaks(attempt, retries, last_error, o) ==
    CASE o.kind = "connected" -> [last_error |-> last_error, ctl |-> "return"]
      [] o.kind \in {"timeout", "refused"} ->
            [last_error |-> Some(IF o.kind = "timeout" THEN "connect timeout"
                                 ELSE "connection refused"),
             ctl |-> "break"]
      [] o.kind \in {"oserror", "nosocket"} ->
            [last_error |-> Some("network error"),
             ctl |-> IF attempt < retries THEN "continue" ELSE "fall"]
      [] OTHER -> [last_error |-> Some(o.text), ctl |-> "break"]

HandleAttempt(attempt, retries, last_error, o) ==
    CASE o.kind = "connected" -> [last_error |-> last_error, ctl |-> "return"]
      [] o.kind = "timeout" ->
            [last_error |-> Some("connect timeout"),
             ctl |-> IF attempt < retries THEN "continue" ELSE "fall"]
      [] o.kind = "refused" ->
            [last_error |-> Some("connection refused"), ctl |-> "break"]
      [] o.kind \in {"oserror", "nosocket"} ->
            [last_error |-> Some("network error"),
             ctl |-> IF attempt < retries THEN "continue" ELSE "fall"]
      [] OTHER -> [last_error |-> Some(o.text), ctl |-> "break"]

\* The whole function on the answers `outs` the network gives to the successive
\* attempts (outs[k] answers attempt k - 1; answers to attempts never made are not read).
RECURSIVE tcp_delay_loop(_, _, _, _)
tcp_delay_loop(attempt, retries, last_error, outs) ==
    IF attempt >= retries + 1
    THEN [success |-> FALSE, delay |-> None, error |-> last_error, attempts |-> attempt]
    ELSE LET o == outs[attempt + 1]
             h == HandleAttempt(attempt, retries, last_error, o)
         IN  CASE h.ctl = "return" ->
                    [success |-> TRUE, delay |-> Some(o.delay), error |-> None,
                     attempts |-> attempt + 1]
               [] h.ctl = "break" ->
                    [success |-> FALSE, delay |-> None, error |-> h.last_error,
                     attempts |-> attempt + 1]
               [] OTHER -> tcp_delay_loop(attempt + 1, retries, h.last_error, outs)

test_tcp_delay(retries, outs) == tcp_delay_loop(0, retries, None, outs)

\* Every return value of test_tcp_delay(ip, port) as test_ip calls it (retries
\* keeps its default), over all answers of the network.
TcpReturns ==
    {[success |-> r.success, delay |-> r.delay, error |-> r.error] :
        r \in {test_tcp_delay(DefaultRetries, outs) :
                  outs \in SeqsOfLen(AttemptOutcomes, DefaultRetries + 1)}}

\* ------------------------------------------------------------------------
\* IPTester.test_download_speed
\* ------------------------------------------------------------------------
Slash == "/"
UrlHostPath == <<"h", Slash, "p">>
UrlHostOnly == <<"h">>
CustomUrls == {None, Some(<<>>), Some(UrlHostOnly), Some(UrlHostPath)}

\* str.split('/', 1): the part before the first '/' and the part after it, or the
\* whole string alone when it holds no '/'.
RECURSIVE FirstSlash(_, _)
FirstSlash(s, i) ==
    IF i > Len(s) THEN 0 ELSE IF s[i] = Slash THEN i ELSE FirstSlash(s, i + 1)

Split1(s) ==
    LET k == FirstSlash(s, 1)
    IN  IF k = 0 THEN <<s>> ELSE <<SubSeq(s, 1, k - 1), SubSeq(s, k + 1, Len(s))>>

\* The fixed fallback targets, as (path, sni_hostname).
FallbackPaths ==
    << <<"/", "cloudflare.com">>, <<"/cdn-cgi/trace", "cloudflare.com">>,
       <<"/", "www.google.com">>, <<"/generate_204", "connectivitycheck.gstatic.com">> >>

\* test_paths: the custom target first when it is a non-empty string with a '/',
\* then the fallbacks.
test_paths(url) ==
    LET custom == IF url # None /\ Len(url[1]) > 0 /\ Len(Split1(url[1])) = 2
                  THEN << << <<Slash>> \o Split1(url[1])[2], Split1(url[1])[1] >> >>
                  ELSE <<>>
    IN  custom \o FallbackPaths

\* What one candidate can end in: a response (status, bytes received before the
\* stream ended or the target was reached, seconds elapsed), requests' Timeout,
\* its ConnectionError, or any other exception with its text.
MinSizeBytes == min_size * 1024
TargetSizeBytes == target_size * 1024
Statuses == {200, 399, 400}
Downloaded == {0, MinSizeBytes - 1, MinSizeBytes, TargetSizeBytes}
Elapsed == {0, 1}
CandidateOutcomes ==
    {[kind |-> "response", status |-> st, downloaded |-> n, elapsed |-> e, text |-> ""] :
        st \in Statuses, n \in Downloaded, e \in Elapsed}
    \cup {[kind |-> k, status |-> 0, downloaded |-> 0, elapsed |-> 0, text |-> ""] :
            k \in {"timeout", "conn_error"}}
    \cup {[kind |-> "exception", status |-> 0, downloaded |-> 0, elapsed |-> 0, text |-> x] :
            x \in ExceptionTexts}

\* speed_mbps, in bytes per second (the code's MB/s times 1048576).
SpeedOf(o) == o.downloaded \div o.elapsed

\* Variants of the loop body: one that goes on to the next candidate after an
\* accepted one and keeps the best speed, one that stops at an exception.
TryCandidateKeepsBest(f, o) ==
    CASE o.kind = "timeout" -> [f EXCEPT !.last_error = Some("download timeout"), !.ctl = "continue"]
      [] o.kind = "conn_error" -> [f EXCEPT !.last_error = Some("connection error"), !.ctl = "continue"]
      [] o.kind = "exception" -> [f EXCEPT !.last_error = Some(o.text), !.ctl = "continue"]
      [] o.status >= 400 -> [f EXCEPT !.last_error = Some("HTTP error"), !.ctl = "continue"]
      [] o.downloaded >= MinSizeBytes /\ o.elapsed > 0 ->
            IF SpeedOf(o) > f.best_speed
            THEN [f EXCEPT !.best_speed = SpeedOf(o), !.success = TRUE, !.ctl = "continue"]
            ELSE [f EXCEPT !.ctl = "continue"]
      [] OTHER -> [f EXCEPT !.last_error = Some("not enough data"), !.ctl = "continue"]

TryCandidateStopsAtException(f, o) ==
    CASE o.kind = "timeout" -> [f EXCEPT !.last_error = Some("download timeout"), !.ctl = "continue"]
      [] o.kind = "conn_error" -> [f EXCEPT !.last_error = Some("connection error"), !.ctl = "continue"]
      [] o.kind = "exception" -> [f EXCEPT !.last_error = Some(o.text), !.ctl = "break"]
      [] o.status >= 400 -> [f EXCEPT !.last_error = Some("HTTP error"), !.ctl = "continue"]
      [] o.downloaded >= MinSizeBytes /\ o.elapsed > 0 ->
            IF SpeedOf(o) > f.best_speed
            THEN [f EXCEPT !.best_speed = SpeedOf(o), !.success = TRUE, !.ctl = "break"]
            ELSE [f EXCEPT !.ctl = "break"]
      [] OTHER -> [f EXCEPT !.last_error = Some("not enough data"), !.ctl = "continue"]

\* One iteration of the candidate loop on the frame f = [best_speed, success,
\* last_error]: the new frame and whether the loop goes on ("continue") or stops
\* ("break").
TryCandidate(f, o) ==
    CASE o.kind = "timeout" -> [f EXCEPT !.last_error = Some("download timeout"), !.ctl = "continue"]
      [] o.kind = "conn_error" -> [f EXCEPT !.last_error = Some("connection error"), !.ctl = "continue"]
      [] o.kind = "exception" -> [f EXCEPT !.last_error = Some(o.text), !.ctl = "continue"]
      [] o.status >= 400 -> [f EXCEPT !.last_error = Some("HTTP error"), !.ctl = "continue"]
      [] o.downloaded >= MinSizeBytes /\ o.elapsed > 0 ->
            IF SpeedOf(o) > f.best_speed
            THEN [f EXCEPT !.best_speed = SpeedOf(o), !.success = TRUE, !.ctl = "break"]
            ELSE [f EXCEPT !.ctl = "break"]
      [] OTHER -> [f EXCEPT !.last_error = Some("not enough data"), !.ctl = "continue"]

RECURSIVE download_loop(_, _, _, _)
download_loop(f, paths, outs, k) ==
    IF k > Len(paths) \/ f.ctl = "break"
    THEN IF f.success
         THEN [success |-> TRUE, speed |-> Some(f.best_speed), error |-> None, tried |-> k - 1]
         ELSE [success |-> FALSE, speed |-> None,
               error |-> IF f.last_error = None \/ f.last_error = Some("")
                         THEN Some("no speed test endpoint available") ELSE f.last_error,
               tried |-> k - 1]
    ELSE download_loop(TryCandidate(f, outs[k]), paths, outs, k + 1)

test_download_speed(url, outs) ==
    download_loop([best_speed |-> 0, success |-> FALSE, last_error |-> None, ctl |-> "continue"],
                  test_paths(url), outs, 1)

\* Every return value (success, speed, error) of test_download_speed for a custom
\* URL, over the answers of the network: some miss repeated on the first k - 1
\* candidates and any one answer on the k-th and later ones.
MaxCandidates == Len(FallbackPaths) + 1
CandidateAnswers ==
    {[j \in 1..MaxCandidates |-> IF j < k THEN miss ELSE last] :
        k \in 1..MaxCandidates, miss \in CandidateOutcomes, last \in CandidateOutcomes}
SpeedReturns ==
    [url \in CustomUrls |->
        {[success |-> r.success, speed |-> r.speed, error |-> r.error] :
            r \in {test_download_speed(url, outs) : outs \in CandidateAnswers}}]

\* ------------------------------------------------------------------------
\* IPTester.test_ip, in the steps a worker takes
\* ------------------------------------------------------------------------
\* Lines 273-281: what test_ip does with the return value r of test_tcp_delay:
\* the result object, and whether it returns now or goes on to the throughput phase.
AfterConnectionNoGate(result, r, want_speed) ==
    IF ~r.success
    THEN [result |-> [result EXCEPT !.error = r.error], next |-> "speed"]
    ELSE [result |-> [result EXCEPT !.tcp_delay = r.delay, !.success = TRUE],
          next |-> "speed"]

AfterConnectionNoDelay(result, r, want_speed) ==
    IF ~r.success
    THEN [result |-> [result EXCEPT !.error = r.error], next |-> "return"]
    ELSE [result |-> [result EXCEPT !.success = TRUE],
          next |-> IF want_speed THEN "speed" ELSE "return"]

AfterConnection(result, r, want_speed) ==
    IF ~r.success
    THEN [result |-> [result EXCEPT !.error = r.error], next |-> "return"]
    ELSE [result |-> [result EXCEPT !.tcp_delay = r.delay, !.success = TRUE],
          next |-> IF want_speed THEN "speed" ELSE "return"]

\* Lines 285-291: what test_ip does with the return value s of test_download_speed.
AfterThroughputRecordsError(result, s) ==
    IF s.success THEN [result EXCEPT !.download_speed = s.speed]
    ELSE [result EXCEPT !.error = s.error]

AfterThroughputDemotes(result, s) ==
    IF s.success THEN [result EXCEPT !.download_speed = s.speed]
    ELSE [result EXCEPT !.success = FALSE, !.tcp_delay = None, !.error = s.error]

AfterThroughput(result, s) ==
    IF s.success THEN [result EXCEPT !.download_speed = s.speed]
    ELSE result

\* ------------------------------------------------------------------------
\* BatchIPTester.test_ips
\* ------------------------------------------------------------------------
total == Len(ip_list)

\* A future and the task behind it.  state: "pending" (queued), "running" (a
\* worker is inside test_ip), "returned" or "raised" (finished).  at: where the
\* worker is inside test_ip.  result: the TestResult being built, then returned.
\* exception: the text of the exception the task raised.  The last three fields
\* record what happened: what the connection phase returned, how many
\* times the throughput phase was entered, and whether it accepted a candidate.
NewFuture(location) ==
    [location |-> location, state |-> "pending", at |-> "queued",
     result |-> TestResult(location.ip, location.port), exception |-> None,
     conn |-> None, speed_runs |-> 0, speed |-> None]

Submitted == 1..Len(futures)
Running == {i \in Submitted : futures[i].state = "running"}

\* Future.done()
FutureDoneOrRunning(i) == futures[i].state \in {"running", "returned", "raised"}

FutureDone(i) == futures[i].state \in {"returned", "raised"}

\* The result the coordinator builds for an exception caught at line 349.
FaultResult(location, text) ==
    [TestResult(location.ip, location.port) EXCEPT !.success = FALSE, !.error = Some(text)]

Init ==
    /\ ip_list \in {Locations(n) : n \in 0..MaxEndpoints}
    /\ \E a \in {<<FALSE, None>>, <<TRUE, None>>, <<TRUE, Some(UrlHostPath)>>} :
            test_speed = a[1] /\ custom_speed_url = a[2]
    /\ progress_callback \in BOOLEAN
    /\ max_workers \in 1..MaxWorkers
    /\ pc = "run"
    /\ futures = <<>>
    /\ yielded = {}
    /\ results = <<>>
    /\ completed = 0
    /\ current = 0
    /\ calls = <<>>
    /\ returned = None
    /\ tcp = None
    /\ speed = None
    /\ flt = None
    /\ app = None
    /\ gen = None

\* Lines 326-335: one executor.submit.
Submit ==
    /\ pc = "run"
    /\ Len(futures) < total
    /\ futures' = Append(futures, NewFuture(ip_list[Len(futures) + 1]))
    /\ UNCHANGED <<ip_list, test_speed, custom_speed_url, progress_callback, max_workers,
                   pc, yielded, results, completed, current, calls, returned, nonBatchVars>>

workerVars == <<ip_list, test_speed, custom_speed_url, progress_callback, max_workers,
                pc, yielded, results, completed, current, calls, returned, nonBatchVars>>

StartTaskUnbounded(i) ==
    /\ i \in Submitted
    /\ futures[i].state = "pending"
    /\ \A j \in 1..(i - 1) : futures[j].state # "pending"
    /\ futures' = [futures EXCEPT ![i].state = "running", ![i].at = "tcp"]
    /\ UNCHANGED workerVars

\* A free worker of the pool takes the oldest queued task and enters test_ip
\* (line 268: the result object is created).
StartTask(i) ==
    /\ i \in Submitted
    /\ futures[i].state = "pending"
    /\ \A j \in 1..(i - 1) : futures[j].state # "pending"
    /\ Cardinality(Running) < max_workers
    /\ futures' = [futures EXCEPT ![i].state = "running", ![i].at = "tcp"]
    /\ UNCHANGED workerVars

ConnectionPhaseWaitsForCallback(i) ==
    /\ pc # "callback"
    /\ i \in Submitted
    /\ futures[i].state = "running"
    /\ futures[i].at = "tcp"
    /\ \E r \in TcpReturns :
         LET a == AfterConnection(futures[i].result, r, test_speed)
         IN  futures' = [futures EXCEPT
                ![i].result = a.result,
                ![i].conn = Some([success |-> r.success, delay |-> r.delay]),
                ![i].at = IF a.next = "speed" THEN "speed" ELSE "end",
                ![i].state = IF a.next = "speed" THEN "running" ELSE "returned"]
    /\ UNCHANGED workerVars

\* Lines 271-281: the connection phase and what test_ip does with its outcome.
ConnectionPhase(i) ==
    /\ i \in Submitted
    /\ futures[i].state = "running"
    /\ futures[i].at = "tcp"
    /\ \E r \in TcpReturns :
         LET a == AfterConnection(futures[i].result, r, test_speed)
         IN  futures' = [futures EXCEPT
                ![i].result = a.result,
                ![i].conn = Some([success |-> r.success, delay |-> r.delay]),
                ![i].at = IF a.next = "speed" THEN "speed" ELSE "end",
                ![i].state = IF a.next = "speed" THEN "running" ELSE "returned"]
    /\ UNCHANGED workerVars

ThroughputPhaseRestartsProbe(i) ==
    /\ i \in Submitted
    /\ futures[i].state = "running"
    /\ futures[i].at = "speed"
    /\ futures' = [futures EXCEPT ![i].at = "tcp"]
    /\ UNCHANGED workerVars

ThroughputPhaseAppendsResult(i) ==
    /\ i \in Submitted
    /\ futures[i].state = "running"
    /\ futures[i].at = "speed"
    /\ \E s \in SpeedReturns[custom_speed_url] :
         /\ futures' = [futures EXCEPT
                ![i].result = AfterThroughput(futures[i].result, s),
                ![i].speed_runs = @ + 1,
                ![i].speed = Some(s.success),
                ![i].at = "end",
                ![i].state = "returned"]
         /\ results' = Append(results, AfterThroughput(futures[i].result, s))
    /\ UNCHANGED <<ip_list, test_speed, custom_speed_url, progress_callback, max_workers,
                   pc, yielded, completed, current, calls, returned, nonBatchVars>>

\* Lines 282-291: the throughput phase, and test_ip returns.
ThroughputPhase(i) ==
    /\ i \in Submitted
    /\ futures[i].state = "running"
    /\ futures[i].at = "speed"
    /\ \E s \in SpeedReturns[custom_speed_url] :
         futures' = [futures EXCEPT
                ![i].result = AfterThroughput(futures[i].result, s),
                ![i].speed_runs = @ + 1,
                ![i].speed = Some(s.success),
                ![i].at = "end",
                ![i].state = "returned"]
    /\ UNCHANGED workerVars

\* An exception escapes test_ip; the executor stores it in the future.
TaskRaises(i) ==
    /\ i \in Submitted
    /\ futures[i].state = "running"
    /\ \E text \in ExceptionTexts :
         futures' = [futures EXCEPT ![i].state = "raised", ![i].at = "end",
                                    ![i].exception = Some(text)]
    /\ UNCHANGED workerVars

\* Lines 339-356, one iteration of the loop over as_completed, up to the call of
\* the callback: a finished future not yet handed out is taken; its result is
\* appended and counted, or the exception future.result() re-raises is caught and
\* converted.
Collect(i) ==
    /\ pc = "run"
    /\ Len(futures) = total
    /\ i \in Submitted \ yielded
    /\ FutureDone(i)
    /\ yielded' = yielded \cup {i}
    /\ IF futures[i].state = "raised"
       THEN /\ results' = Append(results,
                               FaultResult(futures[i].location, futures[i].exception[1]))
            /\ UNCHANGED <<completed, pc, current, calls>>
       ELSE /\ results' = Append(results, futures[i].result)
            /\ completed' = completed + 1
            /\ IF progress_callback
               THEN /\ pc' = "callback"
                    /\ current' = i
                    /\ calls' = Append(calls, [completed |-> completed + 1, total |-> total,
                                               result |-> futures[i].result, future |-> i])
               ELSE UNCHANGED <<pc, current, calls>>
    /\ UNCHANGED <<ip_list, test_speed, custom_speed_url, progress_callback, max_workers,
                   futures, returned, nonBatchVars>>

\* Line 347: the callback returns.
CallbackReturns ==
    /\ pc = "callback"
    /\ pc' = "run"
    /\ current' = 0
    /\ UNCHANGED <<ip_list, test_speed, custom_speed_url, progress_callback, max_workers,
                   futures, yielded, results, completed, calls, returned, nonBatchVars>>

\* Lines 347-356: the callback raises; the except clause of the same try catches it.
CallbackRaises ==
    /\ pc = "callback"
    /\ \E text \in CallbackExceptionTexts :
         results' = Append(results, FaultResult(futures[current].location, text))
    /\ pc' = "run"
    /\ current' = 0
    /\ UNCHANGED <<ip_list, test_speed, custom_speed_url, progress_callback, max_workers,
                   futures, yielded, completed, calls, returned, nonBatchVars>>

\* Lines 339, 356-359: as_completed is exhausted, the with block leaves through
\* executor.shutdown(wait=True), test_ips returns.
Return ==
    /\ pc = "run"
    /\ Len(futures) = total
    /\ yielded = Submitted
    /\ \A i \in Submitted : FutureDone(i)
    /\ pc' = "done"
    /\ returned' = Some(results)
    /\ UNCHANGED <<ip_list, test_speed, custom_speed_url, progress_callback, max_workers,
                   futures, yielded, results, completed, current, calls, nonBatchVars>>

Next ==
    \/ Submit
    \/ \E i \in 1..MaxEndpoints : StartTask(i)
    \/ \E i \in 1..MaxEndpoints : ConnectionPhase(i)
    \/ \E i \in 1..MaxEndpoints : ThroughputPhase(i)
    \/ \E i \in 1..MaxEndpoints : TaskRaises(i)
    \/ \E i \in 1..MaxEndpoints : Collect(i)
    \/ CallbackReturns
    \/ CallbackRaises
    \/ Return

Spec == Init /\ [][Next]_vars

\* test_ips under fair scheduling: as long as some thread, a worker of the pool
\* or the thread that runs test_ips, can take a step, a step is eventually
\* taken; every network operation returns or times out, and the callback
\* returns or raises.
FairSpec == Spec /\ WF_vars(Next)

\* ------------------------------------------------------------------------
\* IPTester.test_tcp_delay, one step per socket operation (SpecTcp)
\* ------------------------------------------------------------------------
\* The frame: retries (argument), attempt (loop variable), last_error, sock
\* ("none": None, "open", "closed"), at (position), ctl (where control goes once
\* the finally clause has run), ret (Optional return value).  attempts counts the
\* loop iterations entered, answers lists what the network answered to each,
\* sockets counts the sockets created and open those created and not yet closed
\* (line 55 unbinds the name `sock`, which closes nothing).
TcpFrame(retries) ==
    [retries |-> retries, attempt |-> 0, last_error |-> None, sock |-> "none",
     at |-> "for", ctl |-> "none", ret |-> None, attempts |-> 0, answers |-> <<>>,
     sockets |-> 0, open |-> 0]

InitTcp ==
    /\ ip_list = <<>>
    /\ test_speed = FALSE
    /\ custom_speed_url = None
    /\ progress_callback = FALSE
    /\ max_workers = 1
    /\ pc = "idle"
    /\ futures = <<>>
    /\ yielded = {}
    /\ results = <<>>
    /\ completed = 0
    /\ current = 0
    /\ calls = <<>>
    /\ returned = None
    /\ \E retries \in 0..MaxRetries : tcp = Some(TcpFrame(retries))
    /\ speed = None
    /\ flt = None
    /\ app = None
    /\ gen = None

Frame == tcp[1]

\* Line 54-55: the loop takes the next value of range(retries + 1).
TcpNextAttempt ==
    /\ Frame.at = "for"
    /\ Frame.attempt < Frame.retries + 1
    /\ tcp' = Some([Frame EXCEPT !.sock = "none", !.at = "try", !.attempts = @ + 1])
    /\ UNCHANGED nonTcpVars

\* Line 54, 99-100: range is exhausted, or the loop was left by break.
TcpGiveUp ==
    /\ \/ Frame.at = "for" /\ Frame.attempt >= Frame.retries + 1
       \/ Frame.at = "after"
    /\ tcp' = Some([Frame EXCEPT !.at = "returned",
                      !.ret = Some([success |-> FALSE, delay |-> None,
                                    error |-> Frame.last_error])])
    /\ UNCHANGED nonTcpVars

\* Lines 57-63: the socket is created and configured.
TcpOpenSocket ==
    /\ Frame.at = "try"
    /\ tcp' = Some([Frame EXCEPT !.sock = "open", !.at = "connect", !.sockets = @ + 1,
                           !.open = @ + 1])
    /\ UNCHANGED nonTcpVars

\* Lines 57, 83-88: socket.socket() raises OSError; sock is still None.
\* Lines 65-91: connect returns or raises, and the matching except clause runs.
TcpAnswer(o) ==
    /\ \/ Frame.at = "try" /\ o.kind = "nosocket"
       \/ Frame.at = "connect" /\ o.kind # "nosocket"
    /\ LET h == HandleAttempt(Frame.attempt, Frame.retries, Frame.last_error, o)
       IN  tcp' = Some([Frame EXCEPT
                    !.last_error = h.last_error,
                    !.ctl = h.ctl,
                    !.ret = IF h.ctl = "return"
                            THEN Some([success |-> TRUE, delay |-> Some(o.delay),
                                       error |-> None])
                            ELSE None,
                    !.answers = Append(@, o),
                    !.at = "finally"])
    /\ UNCHANGED nonTcpVars

\* A variant that closes the socket in the except clauses only: a connected
\* socket is returned from without being closed.
TcpFinallyKeepsConnectedSocket ==
    /\ Frame.at = "finally"
    /\ tcp' = Some([Frame EXCEPT
                !.sock = IF @ = "open" /\ Frame.ctl # "return" THEN "closed" ELSE @,
                !.open = IF Frame.sock = "open" /\ Frame.ctl # "return" THEN @ - 1 ELSE @,
                !.ctl = "none",
                !.attempt = IF Frame.ctl \in {"continue", "fall"} THEN @ + 1 ELSE @,
                !.at = CASE Frame.ctl = "return" -> "returned"
                         [] Frame.ctl = "break" -> "after"
                         [] OTHER -> "for"])
    /\ UNCHANGED nonTcpVars

\* Lines 92-97: the finally clause closes the socket (a socket object is true;
\* close() releases the descriptor even when it raises, and what it raises is
\* swallowed), then control goes where the try statement was leaving to.
TcpFinally ==
    /\ Frame.at = "finally"
    /\ tcp' = Some([Frame EXCEPT
                !.sock = IF @ = "open" THEN "closed" ELSE @,
                !.open = IF Frame.sock = "open" THEN @ - 1 ELSE @,
                !.ctl = "none",
                !.attempt = IF Frame.ctl \in {"continue", "fall"} THEN @ + 1 ELSE @,
                !.at = CASE Frame.ctl = "return" -> "returned"
                         [] Frame.ctl = "break" -> "after"
                         [] OTHER -> "for"])
    /\ UNCHANGED nonTcpVars

NextTcp ==
    \/ TcpNextAttempt
    \/ TcpGiveUp
    \/ TcpOpenSocket
    \/ \E o \in AttemptOutcomes : TcpAnswer(o)
    \/ TcpFinally

SpecTcp == InitTcp /\ [][NextTcp]_vars

\* The step-by-step frame and the function on the list of answers agree.
TcpStepsAgree ==
    (tcp # None /\ Frame.at = "returned") =>
        LET r == test_tcp_delay(Frame.retries,
                                Frame.answers \o [k \in 1..(Frame.retries + 1) |-> Frame.answers[1]])
        IN  /\ Frame.ret = Some([success |-> r.success, delay |-> r.delay, error |-> r.error])
            /\ Frame.attempts = r.attempts

\* ------------------------------------------------------------------------
\* IPTester.test_download_speed, one step per candidate (SpecSpeed)
\* ------------------------------------------------------------------------
\* The state of the program outside the call that a specification follows.
IdleBatch ==
    /\ ip_list = <<>>
    /\ test_speed = FALSE
    /\ custom_speed_url = None
    /\ progress_callback = FALSE
    /\ max_workers = 1
    /\ pc = "idle"
    /\ futures = <<>>
    /\ yielded = {}
    /\ results = <<>>
    /\ completed = 0
    /\ current = 0
    /\ calls = <<>>
    /\ returned = None

\* The frame: url (argument custom_url), paths (test_paths), k (the index of the
\* candidate the loop takes next), f (best_speed, success, last_error and where
\* control went after the last candidate), ret (Optional return value).  tried
\* lists, for each candidate attempted, its target, how it answered, the bytes it
\* delivered and the elapsed time measured (both 0 when no body was read).
SpeedFrame(url) ==
    [url |-> url, paths |-> test_paths(url), k |-> 1,
     f |-> [best_speed |-> 0, success |-> FALSE, last_error |-> None, ctl |-> "continue"],
     at |-> "for", ret |-> None, tried |-> <<>>]

InitSpeed ==
    /\ IdleBatch
    /\ tcp = None
    /\ \E url \in CustomUrls : speed = Some(SpeedFrame(url))
    /\ flt = None
    /\ app = None
    /\ gen = None

SFrame == speed[1]

\* downloaded and elapsed as the loop body leaves them: the body is read only
\* from a response with a status below 400.
BodyRead(o) == o.kind = "response" /\ o.status < 400

\* Lines 148-245: one iteration of the candidate loop.
SpeedTry(o) ==
    /\ SFrame.at = "for"
    /\ SFrame.k <= Len(SFrame.paths)
    /\ SFrame.f.ctl = "continue"
    /\ speed' = Some([SFrame EXCEPT
                  !.f = TryCandidate(SFrame.f, o),
                  !.k = @ + 1,
                  !.tried = Append(@, [target |-> SFrame.paths[SFrame.k],
                                       kind |-> IF o.kind = "response" /\ o.status >= 400
                                                THEN "http_error" ELSE o.kind,
                                       delivered |-> IF BodyRead(o) THEN o.downloaded ELSE 0,
                                       elapsed |-> IF BodyRead(o) THEN o.elapsed ELSE 0])])
    /\ UNCHANGED nonSpeedVars

\* Lines 247-251: the loop is exhausted or was left by break.
SpeedReturn ==
    /\ SFrame.at = "for"
    /\ SFrame.k > Len(SFrame.paths) \/ SFrame.f.ctl = "break"
    /\ LET r == download_loop([SFrame.f EXCEPT !.ctl = "break"], SFrame.paths, <<>>, SFrame.k)
       IN  speed' = Some([SFrame EXCEPT
                     !.at = "returned",
                     !.ret = Some([success |-> r.success, speed |-> r.speed,
                                   error |-> r.error])])
    /\ UNCHANGED nonSpeedVars

NextSpeed ==
    \/ \E o \in CandidateOutcomes : SpeedTry(o)
    \/ SpeedReturn

SpecSpeed == InitSpeed /\ [][NextSpeed]_vars

\* ------------------------------------------------------------------------
\* BatchIPTester.filter_best_ips
\* ------------------------------------------------------------------------
\* Python's truth value of an Optional number, and `x or 0`.
Truthy(opt) == opt # None /\ opt[1] # 0
OrZero(opt) == IF Truthy(opt) THEN opt[1] ELSE 0

\* Lines 376-384: the three list comprehensions; a variant that forgets the test
\* of r.success comes first.
qualifying_without_success(rs, max_delay, min_speed) ==
    LET v1 == SelectSeq(rs, LAMBDA r : r.tcp_delay # None)
        v2 == IF max_delay > 0
              THEN SelectSeq(v1, LAMBDA r : r.tcp_delay[1] <= max_delay) ELSE v1
    IN  IF min_speed > 0
        THEN SelectSeq(v2, LAMBDA r : Truthy(r.download_speed) /\ r.download_speed[1] >= min_speed)
        ELSE v2

qualifying(rs, max_delay, min_speed) ==
    LET v1 == SelectSeq(rs, LAMBDA r : r.success /\ r.tcp_delay # None)
        v2 == IF max_delay > 0
              THEN SelectSeq(v1, LAMBDA r : r.tcp_delay[1] <= max_delay) ELSE v1
    IN  IF min_speed > 0
        THEN SelectSeq(v2, LAMBDA r : Truthy(r.download_speed) /\ r.download_speed[1] >= min_speed)
        ELSE v2

\* Lines 387-390: the sort key, and a variant that does not negate the speed.
sort_key_speed_ascending(r) == <<r.tcp_delay[1], OrZero(r.download_speed)>>

sort_key(r) == <<r.tcp_delay[1], 0 - OrZero(r.download_speed)>>

\* Python's order on pairs.
KeyLess(a, b) == a[1] < b[1] \/ (a[1] = b[1] /\ a[2] < b[2])

\* list.sort(key=...) is stable: x goes behind every element whose key is not
\* greater than its own.
RECURSIVE InsertByKey(_, _)
InsertByKey(sorted, x) ==
    IF sorted = <<>> THEN <<x>>
    ELSE IF KeyLess(sort_key(x), sort_key(Head(sorted)))
         THEN <<x>> \o sorted
         ELSE <<Head(sorted)>> \o InsertByKey(Tail(sorted), x)

RECURSIVE list_sort(_, _)
list_sort(sorted, rest) ==
    IF rest = <<>> THEN sorted ELSE list_sort(InsertByKey(sorted, Head(rest)), Tail(rest))

\* The slice lst[:n]: the first n elements, and for a negative n all but the
\* last -n.
slice_to(lst, n) ==
    LET stop == IF n >= 0 THEN (IF n < Len(lst) THEN n ELSE Len(lst))
                ELSE (IF Len(lst) + n > 0 THEN Len(lst) + n ELSE 0)
    IN  SubSeq(lst, 1, stop)

\* Lines 376-390: valid_results once it is filtered and sorted.
valid_results(rs, max_delay, min_speed) ==
    list_sort(<<>>, qualifying(rs, max_delay, min_speed))

\* Line 392 with the truncation left out.
filter_best_ips_untruncated(rs, max_delay, min_speed, top_n) ==
    valid_results(rs, max_delay, min_speed)

filter_best_ips(rs, max_delay, min_speed, top_n) ==
    slice_to(valid_results(rs, max_delay, min_speed), top_n)

\* The frame of a call: the arguments, valid_results as it is before line 392,
\* and the return value.
FilterFrame(rs, max_delay, min_speed, top_n) ==
    [results |-> rs, max_delay |-> max_delay, min_speed |-> min_speed,
     top_n |-> top_n, at |-> "call", valid |-> <<>>, ret |-> None]

FFrame == flt[1]

\* A variant that filters and sorts the caller's list itself instead of a copy.
FilterBestIpsSortsInPlace ==
    /\ flt # None
    /\ FFrame.at = "call"
    /\ flt' = Some([FFrame EXCEPT
                !.at = "returned",
                !.results = valid_results(FFrame.results, FFrame.max_delay, FFrame.min_speed),
                !.valid = valid_results(FFrame.results, FFrame.max_delay, FFrame.min_speed),
                !.ret = Some(filter_best_ips(FFrame.results, FFrame.max_delay,
                                             FFrame.min_speed, FFrame.top_n))])
    /\ UNCHANGED <<app, nonAppVars>>

\* Lines 361-392: the call runs to its return.  `results` of the frame is the
\* caller's list: the comprehension of line 376 builds a new list, which is what
\* lines 379-390 rebind, sort and slice.
FilterBestIps ==
    /\ flt # None
    /\ FFrame.at = "call"
    /\ flt' = Some([FFrame EXCEPT
                !.at = "returned",
                !.valid = valid_results(FFrame.results, FFrame.max_delay, FFrame.min_speed),
                !.ret = Some(filter_best_ips(FFrame.results, FFrame.max_delay,
                                             FFrame.min_speed, FFrame.top_n))])
    /\ UNCHANGED <<app, nonAppVars>>

\* The results a caller passes in: any TestResult objects.  The i-th is named by
\* the i-th letter.
ResultNames == <<"A", "B", "C", "D", "E">>
ResultShapes ==
    {[success |-> FALSE, tcp_delay |-> None, download_speed |-> None],
     [success |-> FALSE, tcp_delay |-> Some(20), download_speed |-> None],
     [success |-> TRUE, tcp_delay |-> None, download_speed |-> Some(10)]}
    \cup {[success |-> TRUE, tcp_delay |-> Some(d), download_speed |-> sp] :
            d \in {20, 50}, sp \in {None, Some(5), Some(10)}}
ShapedResult(i, shape) ==
    [TestResult(ResultNames[i], Port) EXCEPT
        !.success = shape.success, !.tcp_delay = shape.tcp_delay,
        !.download_speed = shape.download_speed,
        !.error = IF shape.success THEN None ELSE Some("connect timeout")]
ResultLists ==
    {[i \in 1..Len(shapes) |-> ShapedResult(i, shapes[i])] :
        shapes \in SeqsUpTo(ResultShapes, MaxResults)}
MaxDelays == {0 - 1, 0, 20}
MinSpeeds == {0, 10}
TopNs == {0 - 1, 0, 2, 10}

\* The example of the specification: A(50, 10), B(20, 5), C(999, 50).
ExampleResults ==
    << ShapedResult(1, [success |-> TRUE, tcp_delay |-> Some(50), download_speed |-> Some(10)]),
       ShapedResult(2, [success |-> TRUE, tcp_delay |-> Some(20), download_speed |-> Some(5)]),
       ShapedResult(3, [success |-> TRUE, tcp_delay |-> Some(999), download_speed |-> Some(50)]) >>
ExampleCall == FilterFrame(ExampleResults, 300, 0, 2)

\* ------------------------------------------------------------------------
\* CloudflareSpeedTestApp.run, from the generated endpoints to the exit status
\* ------------------------------------------------------------------------
\* Lines 192-194, 255-266: the value run() returns: 1 without endpoints or when an
\* exception was caught, else 0.  A variant treats an empty selection as an error.
run_return_needs_best(locations, best_results, raised) ==
    IF locations = <<>> \/ raised \/ best_results = <<>> THEN 1 ELSE 0

run_return(locations, best_results, raised) ==
    IF locations = <<>> \/ raised THEN 1 ELSE 0

\* save_results, lines 62-71: the results written are those with a delay, and
\* nothing is written when there are none.
filtered_results(rs) == SelectSeq(rs, LAMBDA r : r.tcp_delay # None)

\* The frame of run(): args (the parsed command line), locations, results,
\* best_results, written (what save_results wrote), exit (Optional status).
RunFrame(args) ==
    [args |-> args, at |-> "generate", locations |-> <<>>, results |-> <<>>,
     best_results |-> <<>>, written |-> <<>>, exit |-> None]
RunArgs ==
    [max_delay : {0, 20}, min_speed : {0, 10}, top_n : {0 - 1, 2}, save : BOOLEAN]

AFrame == app[1]

InitApp ==
    /\ IdleBatch
    /\ tcp = None
    /\ speed = None
    /\ \/ /\ app = None
          /\ \/ \E rs \in ResultLists, md \in MaxDelays, ms \in MinSpeeds, n \in TopNs :
                    flt = Some(FilterFrame(rs, md, ms, n))
             \/ flt = Some(ExampleCall)
       \/ /\ flt = None
          /\ \E args \in RunArgs : app = Some(RunFrame(args))
    /\ gen = None

\* Lines 178-196: the endpoints are generated; without any, run returns 1.
RunGenerate ==
    /\ app # None
    /\ AFrame.at = "generate"
    /\ \E n \in 0..MaxResults :
          app' = Some([AFrame EXCEPT
                    !.locations = Locations(n),
                    !.at = IF n = 0 THEN "exited" ELSE "test",
                    !.exit = IF n = 0 THEN Some(run_return(Locations(n), <<>>, FALSE))
                             ELSE None])
    /\ UNCHANGED <<flt, nonAppVars>>

\* What test_ip returns for an endpoint: a failure with its error, or a success
\* with its delay and, possibly, a speed.
ProbeResults(location) ==
    {[TestResult(location.ip, location.port) EXCEPT !.error = Some("connect timeout")]}
    \cup {[TestResult(location.ip, location.port) EXCEPT
                !.success = TRUE, !.tcp_delay = Some(d), !.download_speed = sp] :
            d \in {20, 50}, sp \in {None, Some(5), Some(10)}}

\* Lines 227-233: test_ips returns one result per endpoint.
RunTestIps ==
    /\ app # None
    /\ AFrame.at = "test"
    /\ \E rs \in [1..Len(AFrame.locations) ->
                    UNION {ProbeResults(AFrame.locations[i]) : i \in 1..Len(AFrame.locations)}] :
          /\ \A i \in 1..Len(AFrame.locations) : rs[i] \in ProbeResults(AFrame.locations[i])
          /\ app' = Some([AFrame EXCEPT !.results = rs, !.at = "filter"])
    /\ UNCHANGED <<flt, nonAppVars>>

\* Lines 237-242: the call of filter_best_ips.
RunCallFilter ==
    /\ app # None
    /\ AFrame.at = "filter"
    /\ flt' = Some(FilterFrame(AFrame.results, AFrame.args.max_delay,
                               AFrame.args.min_speed, AFrame.args.top_n))
    /\ app' = Some([AFrame EXCEPT !.at = "filtering"])
    /\ UNCHANGED nonAppVars

\* Lines 237-266: filter_best_ips has returned; the selection is displayed, the
\* results are saved when asked for (the write succeeds or raises), run returns.
RunSaveAndReturn(io) ==
    /\ app # None
    /\ AFrame.at = "filtering"
    /\ flt # None /\ FFrame.at = "returned"
    /\ LET writes == AFrame.args.save /\ filtered_results(AFrame.results) # <<>>
           raised == writes /\ io = "raises"
       IN  /\ (~writes) => io = "ok"
           /\ app' = Some([AFrame EXCEPT
                        !.best_results = FFrame.ret[1],
                        !.written = IF writes /\ ~raised
                                    THEN filtered_results(AFrame.results) ELSE <<>>,
                        !.at = "exited",
                        !.exit = Some(run_return(AFrame.locations, FFrame.ret[1], raised))])
    /\ UNCHANGED <<flt, nonAppVars>>

NextApp ==
    \/ FilterBestIps
    \/ RunGenerate
    \/ RunTestIps
    \/ RunCallFilter
    \/ \E io \in {"ok", "raises"} : RunSaveAndReturn(io)

SpecApp == InitApp /\ [][NextApp]_vars

\* ------------------------------------------------------------------------
\* CloudflareCDNProvider.generate_ips_from_cidr
\* ------------------------------------------------------------------------
Max2(a, b) == IF a > b THEN a ELSE b
Min2(a, b) == IF a < b THEN a ELSE b
RECURSIVE Pow2(_)
Pow2(k) == IF k = 0 THEN 1 ELSE 2 * Pow2(k - 1)

\* An IPv4 address is its first octet and its low 24 bits; `ip + n`, and str(ip)
\* as the sequence of the four octets of the dotted form.
IPv4Address(a, b, c, d) == [hi |-> a, lo |-> (b * 65536) + (c * 256) + d]
AddressPlus(ip, n) ==
    [hi |-> ip.hi + ((ip.lo + n) \div 16777216), lo |-> (ip.lo + n) % 16777216]
str(ip) == <<ip.hi, ip.lo \div 65536, (ip.lo \div 256) % 256, ip.lo % 256>>
endswith_255(ip_string) == ip_string[4] = 255

\* A block specification "a.b.c.d/p".  ipaddress.ip_network raises ValueError
\* unless the prefix length is one of 0..32 and no host bit is set; the blocks
\* here have a prefix of 8 or more.
Cidr(a, b, c, d, p) == [address |-> IPv4Address(a, b, c, d), prefix |-> p]
ip_network_lenient(cidr) ==
    Some([network_address |-> cidr.address, prefixlen |-> Min2(cidr.prefix, 32),
          num_addresses |-> Pow2(32 - Min2(cidr.prefix, 32))])
ip_network(cidr) ==
    IF /\ cidr.prefix \in 8..32
       /\ cidr.address.lo % Pow2(32 - cidr.prefix) = 0
    THEN Some([network_address |-> cidr.address, prefixlen |-> cidr.prefix,
               num_addresses |-> Pow2(32 - cidr.prefix)])
    ELSE None
broadcast_address(network) == AddressPlus(network.network_address, network.num_addresses - 1)

\* network.hosts(): every address but the network and the broadcast address; both
\* addresses of a /31 and the one address of a /32.
num_hosts(network) ==
    IF network.prefixlen >= 31 THEN network.num_addresses ELSE network.num_addresses - 2
host(network, i) ==
    IF network.prefixlen >= 31 THEN AddressPlus(network.network_address, i)
    ELSE AddressPlus(network.network_address, i + 1)

\* Python's a // b.
FloorDiv(a, b) ==
    IF b > 0 THEN (IF a >= 0 THEN a \div b ELSE 0 - (((0 - a) + b - 1) \div b))
    ELSE (IF a <= 0 THEN (0 - a) \div (0 - b) ELSE 0 - ((a + (0 - b) - 1) \div (0 - b)))

subnet_size == 256
position_offsets_first_eight == <<0, 1, 2, 3, 4, 5, 6, 7>>
position_offsets == <<0, 1, 2, 3, 4, 32, 64, 128>>

\* Lines 190-199: one position of one sub-range.
ProbePosition(network, available_hosts, result_ips, final_offset) ==
    IF 0 <= final_offset /\ final_offset < available_hosts
    THEN LET ip_string == str(AddressPlus(network.network_address, final_offset + 1))
         IN  IF ~endswith_255(ip_string) /\ ip_string \notin {result_ips[i] : i \in 1..Len(result_ips)}
             THEN Append(result_ips, ip_string) ELSE result_ips
    ELSE result_ips

\* Lines 183-202: the two nested loops of the large-block strategy; j is the
\* index of the next position offset of sub-range subnet_index.
RECURSIVE large_block_loop(_, _, _, _, _, _, _, _)
large_block_loop(network, available_hosts, count, target_subnets, subnet_interval, subnet_index, j, result_ips) ==
    IF subnet_index >= target_subnets THEN result_ips
    ELSE IF j > Len(position_offsets) \/ Len(result_ips) >= count
         THEN IF Len(result_ips) >= count THEN result_ips
              ELSE large_block_loop(network, available_hosts, count, target_subnets,
                                    subnet_interval, subnet_index + 1, 1, result_ips)
         ELSE large_block_loop(network, available_hosts, count, target_subnets,
                               subnet_interval, subnet_index, j + 1,
                               ProbePosition(network, available_hosts, result_ips,
                                   (subnet_index * subnet_interval * subnet_size)
                                       + position_offsets[j]))

small_block_step_keeps_255(network, count, offset, loop) ==
    LET appended == Append(loop.result_ips,
                           str(AddressPlus(network.network_address, offset + 1)))
    IN  [result_ips |-> appended, broke |-> Len(appended) >= count]

\* Lines 207-214: one iteration of the loop of the small-block strategy.  The
\* state of the loop is the list result_ips and whether `break` was executed.
small_block_step(network, count, offset, loop) ==
    LET ip_string == str(AddressPlus(network.network_address, offset + 1))
        appended == IF ~endswith_255(ip_string) THEN Append(loop.result_ips, ip_string)
                    ELSE loop.result_ips
    IN  [result_ips |-> appended, broke |-> Len(appended) >= count]

\* Lines 206-214: the iterations for offset, offset + 1, ..., stop - 1 in this
\* order, none after a `break`; the range is run as its first half followed by
\* its second half.
RECURSIVE small_block_loop(_, _, _, _, _)
small_block_loop(network, count, stop, offset, loop) ==
    IF offset >= stop \/ loop.broke THEN loop
    ELSE IF stop - offset = 1 THEN small_block_step(network, count, offset, loop)
    ELSE LET middle == offset + ((stop - offset) \div 2)
             first_half == small_block_loop(network, count, middle, offset, loop)
         IN  small_block_loop(network, count, stop, middle, first_half)

\* random.sample(all_hosts, count): count distinct positions of all_hosts; the
\* ones drawn here are consecutive from the position `seed`.
random_sample(n, count, seed) == [i \in 1..count |-> (seed + i - 1) % n]

\* Lines 166-232.  The result is the list of address strings; an exception raised
\* inside the try block (ValueError of ip_network, of random.sample or of islice
\* for a negative count, ZeroDivisionError at line 180) ends in `return []`.
generate_ips_from_cidr(cidr, count, use_random, optimize_selection, seed) ==
    IF ip_network(cidr) = None THEN <<>>
    ELSE
    LET network == ip_network(cidr)[1]
        available_hosts == network.num_addresses - 2
        all_hosts == [i \in 1..num_hosts(network) |-> host(network, i - 1)]
    IN  IF optimize_selection /\ ~use_random
        THEN IF available_hosts > count * subnet_size
             THEN LET target_subnets == Min2(count, Max2(10, FloorDiv(count, 5)))
                  IN  IF target_subnets * subnet_size = 0 THEN <<>>
                      ELSE slice_to(
                              large_block_loop(network, available_hosts, count, target_subnets,
                                  Max2(1, FloorDiv(available_hosts, target_subnets * subnet_size)),
                                  0, 1, <<>>),
                              count)
             ELSE slice_to(small_block_loop(network, count, Min2(count * 2, available_hosts),
                                            0, [result_ips |-> <<>>, broke |-> FALSE]).result_ips,
                           count)
        ELSE IF use_random
        THEN IF num_hosts(network) > count
             THEN IF count < 0 THEN <<>>
                  ELSE [i \in 1..count |->
                          str(host(network, random_sample(num_hosts(network), count, seed)[i]))]
             ELSE [i \in 1..num_hosts(network) |-> str(all_hosts[i])]
        ELSE IF count < 0 THEN <<>>
             ELSE [i \in 1..Min2(count, num_hosts(network)) |-> str(host(network, i - 1))]

\* ------------------------------------------------------------------------
\* CloudflareCDNProvider: the address tables
\* ------------------------------------------------------------------------
\* Lines 79-95: the address blocks Cloudflare publishes.
OFFICIAL_IPV4_RANGES ==
    << Cidr(173, 245, 48, 0, 20), Cidr(103, 21, 244, 0, 22), Cidr(103, 22, 200, 0, 22),
       Cidr(103, 31, 4, 0, 22), Cidr(141, 101, 64, 0, 18), Cidr(108, 162, 192, 0, 18),
       Cidr(190, 93, 240, 0, 20), Cidr(188, 114, 96, 0, 20), Cidr(197, 234, 240, 0, 22),
       Cidr(198, 41, 128, 0, 17), Cidr(162, 158, 0, 0, 15), Cidr(104, 16, 0, 0, 13),
       Cidr(104, 24, 0, 0, 14), Cidr(172, 64, 0, 0, 13), Cidr(131, 0, 72, 0, 22) >>

\* Line 503: the provider as constructed, with the class attribute it reads.
cdn_provider == [OFFICIAL_IPV4_RANGES |-> OFFICIAL_IPV4_RANGES]

\* Lines 99-132: IATA code to city, region and country.
LOCATION_DATABASE ==
    ("LAX" :> [city |-> "Los Angeles", region |-> "North America", country |-> "US"])
    @@ ("SFO" :> [city |-> "San Francisco", region |-> "North America", country |-> "US"])
    @@ ("SJC" :> [city |-> "San Jose", region |-> "North America", country |-> "US"])
    @@ ("SEA" :> [city |-> "Seattle", region |-> "North America", country |-> "US"])
    @@ ("ORD" :> [city |-> "Chicago", region |-> "North America", country |-> "US"])
    @@ ("EWR" :> [city |-> "Newark", region |-> "North America", country |-> "US"])
    @@ ("IAD" :> [city |-> "Washington", region |-> "North America", country |-> "US"])
    @@ ("DFW" :> [city |-> "Dallas", region |-> "North America", country |-> "US"])
    @@ ("MIA" :> [city |-> "Miami", region |-> "North America", country |-> "US"])
    @@ ("YYZ" :> [city |-> "Toronto", region |-> "North America", country |-> "CA"])
    @@ ("LHR" :> [city |-> "London", region |-> "Europe", country |-> "GB"])
    @@ ("AMS" :> [city |-> "Amsterdam", region |-> "Europe", country |-> "NL"])
    @@ ("FRA" :> [city |-> "Frankfurt", region |-> "Europe", country |-> "DE"])
    @@ ("CDG" :> [city |-> "Paris", region |-> "Europe", country |-> "FR"])
    @@ ("MAD" :> [city |-> "Madrid", region |-> "Europe", country |-> "ES"])
    @@ ("MXP" :> [city |-> "Milan", region |-> "Europe", country |-> "IT"])
    @@ ("HKG" :> [city |-> "Hong Kong", region |-> "Asia Pacific", country |-> "HK"])
    @@ ("NRT" :> [city |-> "Tokyo", region |-> "Asia Pacific", country |-> "JP"])
    @@ ("SIN" :> [city |-> "Singapore", region |-> "Asia Pacific", country |-> "SG"])
    @@ ("SYD" :> [city |-> "Sydney", region |-> "Asia Pacific", country |-> "AU"])
    @@ ("ICN" :> [city |-> "Seoul", region |-> "Asia Pacific", country |-> "KR"])
    @@ ("TPE" :> [city |-> "Taipei", region |-> "Asia Pacific", country |-> "TW"])
    @@ ("GRU" :> [city |-> "Sao Paulo", region |-> "South America", country |-> "BR"])
    @@ ("JNB" :> [city |-> "Johannesburg", region |-> "Africa", country |-> "ZA"])
    @@ ("DXB" :> [city |-> "Dubai", region |-> "Middle East", country |-> "AE"])

\* Lines 260-281: the tiers of get_quality_optimized_ips.  A variant of the
\* premium tier holds a block of the deprecated tier, a variant of the fallback
\* tier repeats a premium block.
premium_ranges_with_deprecated ==
    << Cidr(104, 16, 0, 0, 13), Cidr(104, 24, 0, 0, 14), Cidr(108, 162, 192, 0, 18),
       Cidr(172, 64, 0, 0, 13) >>

premium_ranges ==
    << Cidr(104, 16, 0, 0, 13), Cidr(104, 24, 0, 0, 14), Cidr(108, 162, 192, 0, 18) >>

fallback_ranges_repeating_premium ==
    << Cidr(188, 114, 96, 0, 20), Cidr(108, 162, 192, 0, 18) >>

fallback_ranges ==
    << Cidr(188, 114, 96, 0, 20) >>

deprecated_ranges ==
    << Cidr(198, 41, 128, 0, 17), Cidr(162, 158, 0, 0, 15), Cidr(172, 64, 0, 0, 13),
       Cidr(173, 245, 48, 0, 20), Cidr(103, 21, 244, 0, 22), Cidr(103, 22, 200, 0, 22),
       Cidr(103, 31, 4, 0, 22) >>

\* Lines 410-449: the curated addresses of get_verified_premium_ips, as str()
\* writes an address.
tier1_collection ==
    << <<104, 16, 0, 0>>, <<104, 16, 1, 0>>, <<104, 16, 2, 0>>, <<104, 16, 3, 0>>, <<104, 16, 4, 0>>,
       <<104, 17, 0, 0>>, <<104, 17, 1, 0>>, <<104, 17, 2, 0>>, <<104, 17, 3, 0>>, <<104, 17, 4, 0>>,
       <<104, 18, 0, 0>>, <<104, 18, 1, 0>>, <<104, 18, 2, 0>>, <<104, 18, 3, 0>>, <<104, 18, 4, 0>>,
       <<104, 19, 0, 0>>, <<104, 19, 1, 0>>, <<104, 19, 2, 0>>, <<104, 19, 3, 0>>, <<104, 19, 4, 0>>,
       <<104, 20, 0, 0>>, <<104, 20, 1, 0>>, <<104, 20, 2, 0>>, <<104, 20, 3, 0>>, <<104, 20, 4, 0>>,
       <<104, 21, 0, 0>>, <<104, 21, 1, 0>>, <<104, 21, 2, 0>>, <<104, 21, 3, 0>>, <<104, 21, 4, 0>>,
       <<104, 22, 0, 0>>, <<104, 22, 1, 0>>, <<104, 22, 2, 0>>, <<104, 22, 3, 0>>, <<104, 22, 4, 0>>,
       <<104, 23, 0, 0>>, <<104, 23, 1, 0>>, <<104, 23, 2, 0>>, <<104, 23, 3, 0>>, <<104, 23, 4, 0>>,
       <<162, 159, 0, 0>>, <<162, 159, 1, 0>>, <<162, 159, 2, 0>>, <<162, 159, 3, 0>>, <<162, 159, 4, 0>>,
       <<162, 159, 128, 0>>, <<162, 159, 129, 0>>, <<162, 159, 130, 0>>, <<162, 159, 192, 0>>, <<162, 159, 193, 0>>,
       <<104, 24, 0, 0>>, <<104, 24, 1, 0>>, <<104, 24, 2, 0>>, <<104, 24, 3, 0>>, <<104, 24, 4, 0>>,
       <<104, 25, 0, 0>>, <<104, 25, 1, 0>>, <<104, 25, 2, 0>>, <<104, 25, 3, 0>>, <<104, 25, 4, 0>>,
       <<104, 26, 0, 0>>, <<104, 26, 1, 0>>, <<104, 26, 2, 0>>, <<104, 26, 3, 0>>, <<104, 26, 4, 0>>,
       <<104, 27, 0, 0>>, <<104, 27, 1, 0>>, <<104, 27, 2, 0>>, <<104, 27, 3, 0>>, <<104, 27, 4, 0>> >>

tier2_collection ==
    << <<172, 64, 0, 0>>, <<172, 64, 1, 0>>, <<172, 64, 32, 0>>, <<172, 64, 64, 0>>, <<172, 65, 0, 0>>,
       <<172, 65, 1, 0>>, <<172, 65, 32, 0>>, <<172, 65, 64, 0>>, <<172, 66, 0, 0>>, <<172, 66, 1, 0>>,
       <<172, 66, 32, 0>>, <<172, 67, 0, 0>>, <<172, 67, 1, 0>>, <<172, 67, 32, 0>>, <<108, 162, 192, 0>>,
       <<108, 162, 193, 0>>, <<108, 162, 194, 0>>, <<108, 162, 195, 0>>, <<108, 162, 196, 0>>, <<108, 162, 224, 0>>,
       <<108, 162, 225, 0>>, <<108, 162, 226, 0>>, <<162, 158, 0, 0>>, <<162, 158, 1, 0>>, <<162, 158, 2, 0>>,
       <<162, 158, 64, 0>>, <<162, 158, 128, 0>> >>

tier3_collection ==
    << <<1, 1, 1, 1>>, <<1, 0, 0, 1>>, <<1, 1, 1, 2>>, <<1, 0, 0, 2>>, <<188, 114, 96, 0>>,
       <<188, 114, 97, 0>>, <<188, 114, 98, 0>>, <<188, 114, 99, 0>> >>
\* ------------------------------------------------------------------------
\* CloudflareCDNProvider.get_quality_optimized_ips
\* ------------------------------------------------------------------------
\* The loops of lines 285-292, 296-303 and 307-314: all_ips.extend(...) for each
\* block from the k-th on.
RECURSIVE extend_from_ranges(_, _, _, _, _, _)
extend_from_ranges(ranges, k, count, use_random, seed, all_ips) ==
    IF k > Len(ranges) THEN all_ips
    ELSE extend_from_ranges(ranges, k + 1, count, use_random, seed,
             all_ips \o generate_ips_from_cidr(ranges[k], count, use_random, TRUE, seed))

\* The calls of generate_ips_from_cidr made by the loops of lines 285-291,
\* 296-302 and 307-313, in the order they are made.
GenerateCall(cidr, count, use_random) ==
    [cidr |-> cidr, count |-> count, use_random |-> use_random, optimize_selection |-> TRUE]
calls_for_ranges(ranges, count, use_random) ==
    [k \in 1..Len(ranges) |-> GenerateCall(ranges[k], count, use_random)]
generate_calls(self, ips_per_range, enable_quality_filter, seed) ==
    IF enable_quality_filter
    THEN LET from_premium ==
                 extend_from_ranges(premium_ranges, 1, ips_per_range * 3, FALSE, seed, <<>>)
         IN  IF Len(from_premium) < ips_per_range * 10
             THEN calls_for_ranges(premium_ranges, ips_per_range * 3, FALSE)
                     \o calls_for_ranges(fallback_ranges, ips_per_range, FALSE)
             ELSE calls_for_ranges(premium_ranges, ips_per_range * 3, FALSE)
    ELSE calls_for_ranges(self.OFFICIAL_IPV4_RANGES, ips_per_range, TRUE)

\* A variant whose fallback threshold is 9 times the quota.
get_quality_optimized_ips_threshold_nine(self, ips_per_range, enable_quality_filter, seed) ==
    IF enable_quality_filter
    THEN LET from_premium ==
                 extend_from_ranges(premium_ranges, 1, ips_per_range * 3, FALSE, seed, <<>>)
         IN  IF Len(from_premium) < ips_per_range * 9
             THEN extend_from_ranges(fallback_ranges, 1, ips_per_range, FALSE, seed, from_premium)
             ELSE from_premium
    ELSE extend_from_ranges(self.OFFICIAL_IPV4_RANGES, 1, ips_per_range, TRUE, seed, <<>>)

get_quality_optimized_ips_fallback_first(self, ips_per_range, enable_quality_filter, seed) ==
    IF enable_quality_filter
    THEN extend_from_ranges(premium_ranges, 1, ips_per_range * 3, FALSE, seed,
             extend_from_ranges(fallback_ranges, 1, ips_per_range, FALSE, seed, <<>>))
    ELSE extend_from_ranges(self.OFFICIAL_IPV4_RANGES, 1, ips_per_range, TRUE, seed, <<>>)

\* Lines 234-317.  self is the provider; its attribute OFFICIAL_IPV4_RANGES is
\* read when the call is made (line 307).
get_quality_optimized_ips(self, ips_per_range, enable_quality_filter, seed) ==
    IF enable_quality_filter
    THEN LET from_premium ==
                 extend_from_ranges(premium_ranges, 1, ips_per_range * 3, FALSE, seed, <<>>)
         IN  IF Len(from_premium) < ips_per_range * 10
             THEN extend_from_ranges(fallback_ranges, 1, ips_per_range, FALSE, seed, from_premium)
             ELSE from_premium
    ELSE extend_from_ranges(self.OFFICIAL_IPV4_RANGES, 1, ips_per_range, TRUE, seed, <<>>)

\* ------------------------------------------------------------------------
\* CloudflareCDNProvider.create_endpoint_list and get_verified_premium_ips
\* ------------------------------------------------------------------------
secure_ports_https_only == {443}
secure_ports == {443, 2053, 2083, 2087, 2096, 8443}
CloudflareAsn == 13335

\* Lines 40-51: the dataclass with its defaults.
ServerEndpoint(ip, port, tls, datacenter, region, country, city, iata, asn) ==
    [ip |-> ip, port |-> port, source_port |-> 0, tls |-> tls, datacenter |-> datacenter,
     region |-> region, country |-> country, city |-> city, iata |-> iata, asn |-> asn,
     tcp_delay |-> None, download_speed |-> None]

\* Lines 354-379 and 471-494: the endpoint of one address; location_code is an
\* Optional string, default_city the city of the global configuration.
BuildEndpoint(ip_address, port, requires_tls, location_code, default_city) ==
    IF location_code # None /\ location_code[1] # "" /\ location_code[1] \in DOMAIN LOCATION_DATABASE
    THEN ServerEndpoint(ip_address, port, requires_tls, location_code[1],
                        LOCATION_DATABASE[location_code[1]].region,
                        LOCATION_DATABASE[location_code[1]].country,
                        LOCATION_DATABASE[location_code[1]].city,
                        location_code[1], CloudflareAsn)
    ELSE ServerEndpoint(ip_address, port, requires_tls, "Cloudflare", "Global Anycast",
                        "US", default_city, "", CloudflareAsn)

create_endpoint_list(port, count, location_code) ==
    LET requires_tls == port \in secure_ports
        ips_per_range == Max2(1, FloorDiv(count, Len(OFFICIAL_IPV4_RANGES)))
        ip_pool == slice_to(get_quality_optimized_ips(cdn_provider, ips_per_range, TRUE, 0), count)
    IN  [i \in 1..Len(ip_pool) |-> BuildEndpoint(ip_pool[i], port, requires_tls, location_code, "")]

\* Lines 451-462.
selected_ips(location_code) ==
    IF location_code = Some("HKG")
    THEN slice_to(tier1_collection, 60) \o slice_to(tier2_collection, 15)
            \o slice_to(tier3_collection, 5)
    ELSE IF location_code \in {Some("LAX"), Some("SFO"), Some("SJC"), Some("SEA")}
    THEN slice_to(tier1_collection, 50) \o slice_to(tier2_collection, 20)
            \o slice_to(tier3_collection, 10)
    ELSE IF location_code \in {Some("NRT"), Some("ICN"), Some("SIN"), Some("TPE")}
    THEN slice_to(tier1_collection, 45) \o slice_to(tier2_collection, 25)
            \o slice_to(tier3_collection, 10)
    ELSE tier1_collection \o tier2_collection \o tier3_collection

get_verified_premium_ips(port, location_code) ==
    LET requires_tls == port \in secure_ports
    IN  [i \in 1..Len(selected_ips(location_code)) |->
            BuildEndpoint(selected_ips(location_code)[i], port, requires_tls,
                          location_code, "Premium IP")]

\* ------------------------------------------------------------------------
\* CloudflareSpeedTestApp.run: the endpoints handed to the batch
\* ------------------------------------------------------------------------
\* Python's `x or y` for an int x.
IntOr(x, y) == IF x # 0 THEN x ELSE y

\* main.py lines 177-190: the method of the provider that run() calls, with the
\* arguments it passes.  args holds max_ips, port and iata of the command line.
provider_call(args) ==
    IF args.max_ips <= 30
    THEN [method |-> "get_verified_premium_ips", port |-> IntOr(args.port, 443),
          count |-> None, location_code |-> args.iata]
    ELSE [method |-> "create_endpoint_list", port |-> IntOr(args.port, 443),
          count |-> Some(IntOr(args.max_ips, 100)), location_code |-> args.iata]

\* A variant that cuts the curated pool to the requested count.
run_locations_cut_to_count(args) ==
    IF args.max_ips <= 30
    THEN slice_to(get_verified_premium_ips(IntOr(args.port, 443), args.iata),
                  Max2(args.max_ips, 0))
    ELSE create_endpoint_list(IntOr(args.port, 443), IntOr(args.max_ips, 100), args.iata)

\* main.py lines 177-190: `locations`, which line 228 passes to test_ips as
\* ip_list.
run_locations(args) ==
    IF args.max_ips <= 30
    THEN get_verified_premium_ips(IntOr(args.port, 443), args.iata)
    ELSE create_endpoint_list(IntOr(args.port, 443), IntOr(args.max_ips, 100), args.iata)

\* ------------------------------------------------------------------------
\* The calls of the provider (SpecGen)
\* ------------------------------------------------------------------------
\* The frame of a call: the method, its arguments, the calls of
\* generate_ips_from_cidr it has made, the call of the provider made by run(),
\* and the return value (for run(), the endpoints it hands to the batch).
GenFrame(fn, args) ==
    [fn |-> fn, args |-> args, at |-> "call", generate_calls |-> <<>>,
     provider_call |-> None, ret |-> None]
GFrame == gen[1]

\* The blocks, counts and draws of the calls of generate_ips_from_cidr.
GenCidrs ==
    {Cidr(104, 16, 0, 0, 13), Cidr(108, 162, 192, 0, 18), Cidr(188, 114, 96, 0, 20),
     Cidr(103, 21, 244, 0, 22), Cidr(10, 0, 0, 0, 23), Cidr(10, 0, 0, 0, 24),
     Cidr(10, 0, 0, 248, 29), Cidr(10, 0, 0, 0, 30), Cidr(10, 0, 0, 0, 31),
     Cidr(10, 0, 0, 1, 32), Cidr(10, 0, 0, 1, 24), Cidr(10, 0, 0, 0, 33)}
GenCounts == {0 - 1, 0, 1, 2, 5, 8, 9, 10, 50}
ListingCounts == {300}
\* Counts for which the sequential walk of a block reaches an address ending in
\* .255; they are used with the blocks they make small.
WalkCounts == {255, 256, 300}
Seeds == {0, 254}
\* The quotas of the calls of get_quality_optimized_ips, and the ports, counts
\* and location hints of the calls that build endpoints.
Quotas == (0 - 1)..MaxQuota
Ports == {443, 2053, 2083, 2087, 2096, 8443, 80, 8080, 2052, 2082}
EndpointCounts == {0 - 1, 0, 1, 14, 15, 30, 31, 100, 15 * MaxQuota}
\* The providers of the calls of get_quality_optimized_ips: the one constructed,
\* and providers whose OFFICIAL_IPV4_RANGES was given a block specification that
\* does not parse ("10.0.0.1/24" has host bits set, "10.0.0.0/33" a prefix length
\* above 32) as its k-th entry.
UnparsableCidrs == {Cidr(10, 0, 0, 1, 24), Cidr(10, 0, 0, 0, 33)}
InsertAt(lst, k, x) == SubSeq(lst, 1, k - 1) \o <<x>> \o SubSeq(lst, k, Len(lst))
Providers ==
    {cdn_provider} \cup
    {[OFFICIAL_IPV4_RANGES |-> InsertAt(OFFICIAL_IPV4_RANGES, k, bad)] :
        k \in {1, 8, Len(OFFICIAL_IPV4_RANGES) + 1}, bad \in UnparsableCidrs}
LocationCodes == {None, Some(""), Some("HKG"), Some("LAX"), Some("NRT"), Some("LHR"), Some("XXX")}
\* The command lines of run(): --max-ips (default 0), --port (default 0) and
\* --iata (default '').
MaxIps == {0 - 1, 0, 1, 29, 30, 31, 45, 100, 15 * MaxQuota}
RunPorts == {0, 443, 80}

InitGen ==
    /\ IdleBatch
    /\ tcp = None
    /\ speed = None
    /\ flt = None
    /\ app = None
    /\ \/ \E cidr \in GenCidrs, count \in GenCounts \cup ListingCounts \cup WalkCounts,
               use_random \in BOOLEAN, optimize_selection \in BOOLEAN, seed \in Seeds :
             /\ (~use_random) => seed = 0
             /\ (optimize_selection /\ ~use_random) =>
                    \/ count \in GenCounts
                    \/ /\ count \in WalkCounts
                       /\ ip_network(cidr) # None
                       /\ ip_network(cidr)[1].num_addresses - 2 <= count * subnet_size
             /\ ~(optimize_selection /\ ~use_random) => count \in GenCounts \cup ListingCounts
             /\ gen = Some(GenFrame("generate_ips_from_cidr",
                        [cidr |-> cidr, count |-> count, use_random |-> use_random,
                         optimize_selection |-> optimize_selection, seed |-> seed]))
       \/ \E self \in Providers, q \in Quotas, enable_quality_filter \in BOOLEAN,
               seed \in Seeds :
             /\ enable_quality_filter => (seed = 0 /\ self = cdn_provider)
             /\ gen = Some(GenFrame("get_quality_optimized_ips",
                        [self |-> self, ips_per_range |-> q,
                         enable_quality_filter |-> enable_quality_filter, seed |-> seed]))
       \/ \E port \in Ports, count \in EndpointCounts, location_code \in LocationCodes :
             gen = Some(GenFrame("create_endpoint_list",
                        [port |-> port, count |-> count, location_code |-> location_code]))
       \/ \E port \in Ports, location_code \in LocationCodes :
             gen = Some(GenFrame("get_verified_premium_ips",
                        [port |-> port, location_code |-> location_code]))
       \/ \E max_ips \in MaxIps, port \in RunPorts, iata \in LocationCodes :
             gen = Some(GenFrame("run", [max_ips |-> max_ips, port |-> port, iata |-> iata]))

\* Lines 139-232: a call of generate_ips_from_cidr runs to its return.
GenerateIpsFromCidr ==
    /\ gen # None
    /\ GFrame.fn = "generate_ips_from_cidr" /\ GFrame.at = "call"
    /\ gen' = Some([GFrame EXCEPT
                !.at = "returned",
                !.ret = Some(generate_ips_from_cidr(GFrame.args.cidr, GFrame.args.count,
                                 GFrame.args.use_random, GFrame.args.optimize_selection,
                                 GFrame.args.seed))])
    /\ UNCHANGED nonGenVars

\* Lines 234-317: a call of get_quality_optimized_ips runs to its return.
GetQualityOptimizedIps ==
    /\ gen # None
    /\ GFrame.fn = "get_quality_optimized_ips" /\ GFrame.at = "call"
    /\ gen' = Some([GFrame EXCEPT
                !.at = "returned",
                !.generate_calls = generate_calls(GFrame.args.self, GFrame.args.ips_per_range,
                                       GFrame.args.enable_quality_filter, GFrame.args.seed),
                !.ret = Some(get_quality_optimized_ips(GFrame.args.self,
                                 GFrame.args.ips_per_range,
                                 GFrame.args.enable_quality_filter, GFrame.args.seed))])
    /\ UNCHANGED nonGenVars

\* Lines 319-384: a call of create_endpoint_list runs to its return.
CreateEndpointList ==
    /\ gen # None
    /\ GFrame.fn = "create_endpoint_list" /\ GFrame.at = "call"
    /\ gen' = Some([GFrame EXCEPT
                !.at = "returned",
                !.ret = Some(create_endpoint_list(GFrame.args.port, GFrame.args.count,
                                                  GFrame.args.location_code))])
    /\ UNCHANGED nonGenVars

\* Lines 386-499: a call of get_verified_premium_ips runs to its return.
GetVerifiedPremiumIps ==
    /\ gen # None
    /\ GFrame.fn = "get_verified_premium_ips" /\ GFrame.at = "call"
    /\ gen' = Some([GFrame EXCEPT
                !.at = "returned",
                !.ret = Some(get_verified_premium_ips(GFrame.args.port,
                                                      GFrame.args.location_code))])
    /\ UNCHANGED nonGenVars

\* main.py lines 177-196: run() obtains the endpoints from the provider; they
\* are what it hands to test_ips (none would end the run).
RunObtainsEndpoints ==
    /\ gen # None
    /\ GFrame.fn = "run" /\ GFrame.at = "call"
    /\ gen' = Some([GFrame EXCEPT
                !.at = "returned",
                !.provider_call = Some(provider_call(GFrame.args)),
                !.ret = Some(run_locations(GFrame.args))])
    /\ UNCHANGED nonGenVars

NextGen ==
    \/ GenerateIpsFromCidr
    \/ GetQualityOptimizedIps
    \/ CreateEndpointList
    \/ GetVerifiedPremiumIps
    \/ RunObtainsEndpoints

SpecGen == InitGen /\ [][NextGen]_vars

\* ------------------------------------------------------------------------
\* Properties of BatchIPTester.test_ips (checked under Spec)
\* ------------------------------------------------------------------------
HasReturned == returned # None
Output == returned[1]
SameEndpoint(r, location) == r.ip = location.ip /\ r.port = location.port
RaisedFutures == {i \in Submitted : futures[i].state = "raised"}
ReturnedFutures == {i \in Submitted : futures[i].state = "returned"}

\* C1: test_ips over N endpoints returns a list of exactly N results, whatever
\* the outcome of each probe task.
C1_ExactlyNResults ==
    HasReturned => Len(Output) = total

\* C2: when a task raised, the output holds for its endpoint a result with
\* success = false and a non-empty error that is the fault's description, and
\* every sibling that returned has its own result in the output.
C2_FaultIsolated ==
    HasReturned =>
        /\ \A i \in RaisedFutures :
              \E k \in 1..Len(Output) :
                 /\ SameEndpoint(Output[k], futures[i].location)
                 /\ ~Output[k].success
                 /\ Output[k].error # None
                 /\ Output[k].error[1] # ""
                 /\ Output[k].error = futures[i].exception
        /\ \A j \in ReturnedFutures :
              \E k \in 1..Len(Output) : Output[k] = futures[j].result

\* C3: when test_ips has returned, every endpoint's task has been dispatched and
\* has finished: none is queued and none is running.
C3_JoinPoint ==
    pc = "done" =>
        /\ Len(futures) = total
        /\ \A i \in 1..total : futures[i].state \in {"returned", "raised"}

C3_Witness ==
    /\ pc = "done"
    /\ total >= 2
    /\ \E i, j \in 1..total : futures[i].state = "returned" /\ futures[j].state = "raised"

\* C4: with a callback supplied, by the time test_ips returns the callback has
\* been invoked exactly once for every dispatched task, returned or raised, with
\* (number of tasks collected so far, N, the task's result).
CallsFor(i) == {k \in 1..Len(calls) : calls[k].future = i}
C4_CallbackForEveryTask ==
    (HasReturned /\ progress_callback) =>
        /\ Len(calls) = total
        /\ \A i \in Submitted : Cardinality(CallsFor(i)) = 1
        /\ \A k \in 1..Len(calls) : calls[k].completed = k /\ calls[k].total = total

\* C7: in every result test_ips collects and returns, tcp_delay is defined iff
\* success is true.
C7_DelayIffSuccess ==
    /\ \A k \in 1..Len(results) : (results[k].tcp_delay # None) <=> results[k].success
    /\ HasReturned => Output = results

C7_Witness ==
    /\ HasReturned
    /\ \E k \in 1..Len(Output) : Output[k].success /\ Output[k].tcp_delay # None
    /\ \E i \in RaisedFutures :
          \E k \in 1..Len(Output) :
             Output[k] = FaultResult(futures[i].location, futures[i].exception[1])

\* C8: in every result test_ips collects and returns, an error is present iff
\* success is false; a throughput phase that failed leaves no error on the result.
C8_ErrorIffFailure ==
    /\ \A k \in 1..Len(results) : (results[k].error # None) <=> ~results[k].success
    /\ \A i \in ReturnedFutures :
          futures[i].speed = Some(FALSE) => futures[i].result.error = None

C8_Witness ==
    /\ HasReturned
    /\ \E i \in ReturnedFutures :
          /\ futures[i].speed = Some(FALSE)
          /\ \E k \in 1..Len(Output) : Output[k] = futures[i].result
    /\ \E k \in 1..Len(Output) : Output[k].error = Some("")

\* C9: the result test_ip returns has success and tcp_delay as the connection
\* phase set them, whatever the throughput phase did, and has a download_speed
\* exactly when the throughput phase ran and accepted a candidate.
C9_ThroughputNeverDemotes ==
    \A i \in ReturnedFutures :
        /\ futures[i].conn # None
        /\ futures[i].result.success = futures[i].conn[1].success
        /\ futures[i].result.tcp_delay = futures[i].conn[1].delay
        /\ (futures[i].result.download_speed # None) <=>
              (futures[i].speed_runs > 0 /\ futures[i].speed = Some(TRUE))

C9_Witness ==
    \E i, j \in ReturnedFutures :
        /\ futures[i].speed = Some(FALSE) /\ futures[i].result.success
        /\ futures[j].speed = Some(TRUE) /\ futures[j].result.download_speed # None

\* C10: a task is in, or has been through, the throughput phase only if
\* throughput testing was requested and its connection phase has finished with
\* success; while the connection phase is in progress no throughput phase has run.
C10_ThroughputGated ==
    \A i \in Submitted :
        /\ (futures[i].at = "speed" \/ futures[i].speed_runs > 0) =>
              (test_speed /\ futures[i].conn # None /\ futures[i].conn[1].success)
        /\ futures[i].at \in {"queued", "tcp"} => futures[i].speed_runs = 0
        /\ futures[i].speed_runs <= 1

C10_Witness ==
    \E i, j \in Submitted :
        /\ futures[i].speed_runs = 1
        /\ futures[j].state = "returned" /\ ~futures[j].result.success
        /\ futures[j].speed_runs = 0

\* ------------------------------------------------------------------------
\* Properties of IPTester.test_tcp_delay (checked under SpecTcp)
\* ------------------------------------------------------------------------
TcpReturned == tcp # None /\ Frame.at = "returned"
AnswerKinds == {Frame.answers[k].kind : k \in 1..Len(Frame.answers)}

\* C5: once an attempt is answered by a refusal no further attempt is made: the
\* refusal is the last answer and the attempt count stays at its index; the
\* probe then returns failure with the refusal as its error, and a probe
\* refused on its first attempt has made exactly one attempt.
C5_RefusalEndsProbe ==
    tcp # None =>
        /\ \A k \in 1..Len(Frame.answers) :
              Frame.answers[k].kind = "refused" =>
                 /\ k = Len(Frame.answers)
                 /\ Frame.attempts = k
                 /\ Frame.at = "returned" =>
                       Frame.ret = Some([success |-> FALSE, delay |-> None,
                                         error |-> Some("connection refused")])
        /\ (Frame.at = "returned" /\ Frame.answers[1].kind = "refused") => Frame.attempts = 1

C5_Witness ==
    /\ TcpReturned
    /\ Frame.retries >= 1
    /\ Frame.answers[1].kind = "refused"
    /\ Frame.attempts = 1

\* C6: the number of attempts never exceeds retries + 1; a probe whose every
\* attempt ended in a timeout or an OS-level error has made exactly retries + 1
\* attempts when it returns, and returns failure with the last attempt's error;
\* a successful attempt is the last one and the probe returns success.
ErrorOfAnswer(o) ==
    IF o.kind = "timeout" THEN Some("connect timeout") ELSE Some("network error")

C6_RetryBudget ==
    tcp # None =>
        /\ Frame.attempts <= Frame.retries + 1
        /\ Len(Frame.answers) <= Frame.attempts
        /\ (Frame.at = "returned" /\ AnswerKinds \subseteq {"timeout", "oserror", "nosocket"}) =>
              /\ Frame.attempts = Frame.retries + 1
              /\ Len(Frame.answers) = Frame.retries + 1
              /\ Frame.ret = Some([success |-> FALSE, delay |-> None,
                                    error |-> ErrorOfAnswer(Frame.answers[Len(Frame.answers)])])
        /\ \A k \in 1..Len(Frame.answers) :
              Frame.answers[k].kind = "connected" =>
                 /\ k = Len(Frame.answers)
                 /\ Frame.attempts = k
                 /\ Frame.at = "returned" =>
                       Frame.ret = Some([success |-> TRUE,
                                         delay |-> Some(Frame.answers[k].delay),
                                         error |-> None])

C6_Witness ==
    /\ TcpReturned
    /\ Frame.retries = MaxRetries
    /\ Frame.attempts = MaxRetries + 1
    /\ AnswerKinds = {"timeout", "oserror"}

\* ------------------------------------------------------------------------
\* Properties of IPTester.test_download_speed (checked under SpecSpeed)
\* ------------------------------------------------------------------------
SpeedReturned == speed # None /\ SFrame.at = "returned"
Tried == SFrame.tried
HasSlash(text) == \E i \in 1..Len(text) : text[i] = Slash

\* The candidates attempted so far are the first ones of the list "custom target
\* (when a host/path string was supplied), then the four fallback targets".
TriedInListOrder ==
    LET url == SFrame.url
        custom == url # None /\ HasSlash(url[1])
        off == IF custom THEN 1 ELSE 0
    IN  /\ Len(FallbackPaths) = 4
        /\ Len(Tried) <= off + 4
        /\ \A j \in 1..Len(Tried) :
              IF custom /\ j = 1
              THEN /\ Tried[j].target[2] = SubSeq(url[1], 1, FirstSlash(url[1], 1) - 1)
                   /\ Tried[j].target[1] =
                         <<Slash>> \o SubSeq(url[1], FirstSlash(url[1], 1) + 1, Len(url[1]))
              ELSE Tried[j].target = FallbackPaths[j - off]

ListedMiss(h) ==
    \/ h.kind \in {"http_error", "timeout", "conn_error", "exception"}
    \/ h.kind = "response" /\ h.delivered < MinSizeBytes

\* C12: a candidate that answers with a status >= 400, delivers fewer bytes than
\* the 100 KB minimum, times out or raises an exception is a non-fatal miss: the
\* loop goes on to the next candidate in order, and the call returns failure,
\* with no speed, only when every candidate of the list has missed.
C12_MissIsNotFatal ==
    speed # None =>
        /\ (Tried # <<>> /\ ListedMiss(Tried[Len(Tried)])) =>
              /\ SFrame.f.ctl = "continue"
              /\ (SFrame.at = "for" /\ Len(Tried) < Len(SFrame.paths)) =>
                    ENABLED (\E o \in CandidateOutcomes : SpeedTry(o))
              /\ SpeedReturned => Len(Tried) = Len(SFrame.paths)
        /\ (SpeedReturned /\ ~SFrame.ret[1].success) =>
              /\ Len(Tried) = Len(SFrame.paths)
              /\ \A j \in 1..Len(Tried) : ~(Tried[j].delivered >= MinSizeBytes /\ Tried[j].elapsed > 0)
              /\ SFrame.ret[1].speed = None
        /\ (SpeedReturned /\ \A j \in 1..Len(Tried) : ListedMiss(Tried[j])) =>
              ~SFrame.ret[1].success /\ SFrame.ret[1].speed = None

\* Every candidate missed, each kind of miss occurred, and failure was returned.
C12_Witness ==
    /\ SpeedReturned
    /\ ~SFrame.ret[1].success
    /\ Len(Tried) = 5
    /\ {Tried[j].kind : j \in 1..Len(Tried)} =
           {"http_error", "timeout", "conn_error", "exception", "response"}

\* ------------------------------------------------------------------------
\* Properties of filter_best_ips and of run() (checked under SpecApp)
\* ------------------------------------------------------------------------
FilterReturned == flt # None /\ FFrame.at = "returned"
FilterOutput == FFrame.ret[1]
Elements(lst) == {lst[i] : i \in 1..Len(lst)}
\* How many entries of lst are equal to r.
Count(lst, r) == Cardinality({i \in 1..Len(lst) : lst[i] = r})

\* What the claim requires of a result that is kept.
Qualifies(r, max_delay, min_speed) ==
    /\ r.success
    /\ r.tcp_delay # None
    /\ max_delay > 0 => r.tcp_delay[1] <= max_delay
    /\ min_speed > 0 => (r.download_speed # None /\ r.download_speed[1] >= min_speed)

\* C13: before truncation the results kept are exactly the input results with
\* success = true and a defined tcp_delay, with tcp_delay <= max_delay when
\* max_delay > 0 and a present download_speed >= min_speed when min_speed > 0; a
\* threshold <= 0 switches its filter off.
C13_KeptExactlyQualifying ==
    FilterReturned =>
        /\ Elements(FFrame.valid) =
              {r \in Elements(FFrame.results) :
                  Qualifies(r, FFrame.max_delay, FFrame.min_speed)}
        /\ \A r \in Elements(FFrame.valid) : Count(FFrame.valid, r) = Count(FFrame.results, r)

\* Both thresholds are in force; one result passes, one fails the delay ceiling
\* and one the speed floor.
C13_Witness ==
    /\ FilterReturned
    /\ FFrame.max_delay > 0 /\ FFrame.min_speed > 0
    /\ Len(FFrame.results) = 3
    /\ Len(FFrame.valid) = 1
    /\ \E r \in Elements(FFrame.results) :
          r.success /\ r.tcp_delay # None /\ r.tcp_delay[1] > FFrame.max_delay
    /\ \E r \in Elements(FFrame.results) :
          /\ r.success /\ r.tcp_delay # None /\ r.tcp_delay[1] <= FFrame.max_delay
          /\ r.download_speed = None

\* "a ranks before b": a smaller delay, or the same delay and a greater speed,
\* an absent speed counting as 0.
SpeedOrZero(r) == IF r.download_speed = None THEN 0 ELSE r.download_speed[1]
RanksBefore(a, b) ==
    \/ a.tcp_delay[1] < b.tcp_delay[1]
    \/ a.tcp_delay[1] = b.tcp_delay[1] /\ SpeedOrZero(a) > SpeedOrZero(b)

\* C14: the returned list is in ascending order of tcp_delay and, among equal
\* delays, in descending order of download_speed with an absent speed counted as
\* 0; the inputs A(50, 10), B(20, 5), C(999, 50) with max_delay = 300,
\* min_speed = 0, top_n = 2 yield [B, A].
C14_SortedByDelayThenSpeed ==
    FilterReturned =>
        /\ \A i, j \in 1..Len(FilterOutput) :
              i < j => ~RanksBefore(FilterOutput[j], FilterOutput[i])
        /\ (FFrame.results = ExampleResults /\ FFrame.max_delay = 300
                /\ FFrame.min_speed = 0 /\ FFrame.top_n = 2) =>
              FilterOutput = <<ExampleResults[2], ExampleResults[1]>>

\* Three results came back in an order that is not the input's: two of equal
\* delay, the one with a speed before the one without, then a slower one.
C14_Witness ==
    /\ FilterReturned
    /\ Len(FilterOutput) = 3
    /\ FilterOutput # FFrame.results
    /\ FilterOutput[1].tcp_delay = FilterOutput[2].tcp_delay
    /\ FilterOutput[1].download_speed = Some(10)
    /\ FilterOutput[2].download_speed = None
    /\ FilterOutput[3].tcp_delay[1] > FilterOutput[2].tcp_delay[1]

\* The results that qualify, as the claim counts them.
QualifyingInputs ==
    {i \in 1..Len(FFrame.results) :
        Qualifies(FFrame.results[i], FFrame.max_delay, FFrame.min_speed)}
LeftOut ==
    {FFrame.results[i] : i \in {k \in QualifyingInputs :
        Count(FilterOutput, FFrame.results[k]) < Count(FFrame.results, FFrame.results[k])}}
NoneLeftOutRanksBefore ==
    \A a \in LeftOut : \A b \in Elements(FilterOutput) : ~RanksBefore(a, b)
MinOf(a, b) == IF a < b THEN a ELSE b

\* C15: for every integer top_n the output has at most top_n entries, exactly
\* min(top_n, number of qualifying results), and no qualifying result left out
\* of the output ranks strictly before a result that is in it.
C15_TopNForEveryInteger ==
    FilterReturned =>
        /\ Len(FilterOutput) <= FFrame.top_n
        /\ Len(FilterOutput) = MinOf(FFrame.top_n, Cardinality(QualifyingInputs))
        /\ NoneLeftOutRanksBefore

\* What line 392 does guarantee: for top_n >= 0 the output has exactly
\* min(top_n, number of qualifying results) entries, and for every top_n it is
\* the beginning of the sorted qualifying list.
TopNForNonNegative ==
    FilterReturned =>
        /\ FFrame.top_n >= 0 =>
              /\ Len(FilterOutput) <= FFrame.top_n
              /\ Len(FilterOutput) = MinOf(FFrame.top_n, Cardinality(QualifyingInputs))
        /\ Len(FilterOutput) <= Len(FFrame.valid)
        /\ FilterOutput = SubSeq(FFrame.valid, 1, Len(FilterOutput))
        /\ NoneLeftOutRanksBefore

\* Three results qualify, top_n is 2, and the one left out is the slowest.
TopNTruncates ==
    /\ FilterReturned
    /\ FFrame.top_n = 2
    /\ Cardinality(QualifyingInputs) = 3
    /\ Len(FilterOutput) = 2
    /\ \E a \in LeftOut : \A b \in Elements(FilterOutput) : RanksBefore(b, a)

RunExited == app # None /\ AFrame.at = "exited"
NoSuccess(rs) == \A i \in 1..Len(rs) : ~rs[i].success

\* C16: filter_best_ips applied to an empty list, or to a list without any
\* successful result, returns the empty list without raising, and a run whose
\* batch has no successful result exits with status 0.
C16_NoSuccessIsNotAnError ==
    /\ (flt # None /\ NoSuccess(FFrame.results)) =>
          /\ FFrame.at = "call" => ENABLED FilterBestIps
          /\ FFrame.at = "returned" => FilterOutput = <<>>
    /\ (RunExited /\ AFrame.locations # <<>> /\ NoSuccess(AFrame.results)) =>
          /\ AFrame.best_results = <<>>
          /\ AFrame.exit = Some(0)

\* A run with saving switched on tested two endpoints, both failed, and it exited.
C16_Witness ==
    /\ RunExited
    /\ AFrame.args.save
    /\ Len(AFrame.locations) = 2
    /\ Len(AFrame.results) = 2
    /\ NoSuccess(AFrame.results)
    /\ FilterReturned /\ FilterOutput = <<>>

\* ------------------------------------------------------------------------
\* Properties of CloudflareCDNProvider (checked under SpecGen)
\* ------------------------------------------------------------------------
GenReturned(fn) == gen # None /\ GFrame.fn = fn /\ GFrame.at = "returned"
GenOutput == GFrame.ret[1]
Distinct(lst) == \A i, j \in 1..Len(lst) : i # j => lst[i] # lst[j]

\* C17: for any block, any count and any combination of use_random and
\* optimize_selection, generate_ips_from_cidr returns at most count addresses
\* (none for a negative count), pairwise distinct, none with a last octet of
\* 255, and none equal to the network address or the broadcast address of the
\* block.
C17_GeneratedAddressesUsable ==
    GenReturned("generate_ips_from_cidr") =>
        /\ Len(GenOutput) <= Max2(GFrame.args.count, 0)
        /\ Distinct(GenOutput)
        /\ \A i \in 1..Len(GenOutput) : GenOutput[i][4] # 255
        /\ ip_network(GFrame.args.cidr) # None =>
              \A i \in 1..Len(GenOutput) :
                  /\ GenOutput[i] # str(ip_network(GFrame.args.cidr)[1].network_address)
                  /\ GenOutput[i] # str(broadcast_address(ip_network(GFrame.args.cidr)[1]))

\* The same for the optimized selection alone (optimize_selection and not
\* use_random), where it holds.
UsableWhenOptimized ==
    (gen # None /\ GFrame.fn = "generate_ips_from_cidr"
        /\ GFrame.args.optimize_selection /\ ~GFrame.args.use_random) =>
        C17_GeneratedAddressesUsable

\* The 256-address windows that hold an address of the list.
Windows(lst) == {SubSeq(lst[i], 1, 3) : i \in 1..Len(lst)}
LargeBlockCall ==
    /\ gen # None
    /\ GFrame.fn = "generate_ips_from_cidr"
    /\ GFrame.args.optimize_selection /\ ~GFrame.args.use_random
    /\ ip_network(GFrame.args.cidr) # None
    /\ ip_network(GFrame.args.cidr)[1].num_addresses - 2 > GFrame.args.count * subnet_size

\* C18: for a large block (usable hosts > count x 256) with optimized selection
\* the addresses returned fall in at least min(count, 10) distinct 256-address
\* windows, e.g. at least 10 for a /13 with count 50.
C18_SpansTenWindows ==
    (LargeBlockCall /\ GFrame.at = "returned") =>
        Cardinality(Windows(GenOutput)) >= Min2(GFrame.args.count, 10)

\* What the loops do reach: every 8 addresses come from one window, so count
\* addresses fall in ceil(count / 8) windows.
WindowsReached ==
    (LargeBlockCall /\ GFrame.at = "returned" /\ GFrame.args.count >= 1) =>
        /\ Len(GenOutput) = GFrame.args.count
        /\ Cardinality(Windows(GenOutput)) = (GFrame.args.count + 7) \div 8

\* The address written as ip_string lies inside the block cidr.
InBlock(ip_string, cidr) ==
    /\ ip_string[1] = cidr.address.hi
    /\ ((ip_string[2] * 65536) + (ip_string[3] * 256) + ip_string[4]) \div Pow2(32 - cidr.prefix)
          = cidr.address.lo \div Pow2(32 - cidr.prefix)
InSomeBlock(ip_string, ranges) == \E k \in 1..Len(ranges) : InBlock(ip_string, ranges[k])

\* C19: with quality filtering enabled, for every per-range quota, no address
\* returned by get_quality_optimized_ips lies inside a block of the deprecated
\* tier.
C19_NoDeprecatedAddress ==
    (GenReturned("get_quality_optimized_ips") /\ GFrame.args.enable_quality_filter) =>
        \A i \in 1..Len(GenOutput) : ~InSomeBlock(GenOutput[i], deprecated_ranges)

\* A call with the filter and a quota of 5 returned addresses of every premium
\* block and of the fallback block.
C19_Witness ==
    /\ GenReturned("get_quality_optimized_ips")
    /\ GFrame.args.enable_quality_filter
    /\ GFrame.args.ips_per_range = 5
    /\ Len(GenOutput) = 50
    /\ \A k \in 1..Len(premium_ranges) :
          \E i \in 1..Len(GenOutput) : InBlock(GenOutput[i], premium_ranges[k])
    /\ \E i \in 1..Len(GenOutput) : InSomeBlock(GenOutput[i], fallback_ranges)

\* C20: a batch built by create_endpoint_list (any port, count and hint) or by
\* get_verified_premium_ips (any port and hint) holds no two endpoints with the
\* same (ip, port) pair.
C20_NoDuplicateEndpoint ==
    (GenReturned("create_endpoint_list") \/ GenReturned("get_verified_premium_ips")) =>
        \A i, j \in 1..Len(GenOutput) :
            (GenOutput[i].ip = GenOutput[j].ip /\ GenOutput[i].port = GenOutput[j].port) => i = j

\* create_endpoint_list built a batch of 60 endpoints with addresses of the
\* premium blocks and of the fallback block.
C20_Witness ==
    /\ GenReturned("create_endpoint_list")
    /\ GFrame.args.count = 100
    /\ GFrame.args.location_code = Some("HKG")
    /\ Len(GenOutput) = 60
    /\ \E i \in 1..Len(GenOutput) : InSomeBlock(GenOutput[i].ip, fallback_ranges)
    /\ \E i \in 1..Len(GenOutput) : InSomeBlock(GenOutput[i].ip, premium_ranges)

\* The curated pool for a hint has no duplicate either: here the full pool.
CuratedPoolBuilt ==
    /\ GenReturned("get_verified_premium_ips")
    /\ GFrame.args.location_code = None
    /\ Len(GenOutput) = Len(tier1_collection) + Len(tier2_collection) + Len(tier3_collection)

\* C21: every endpoint built by create_endpoint_list or get_verified_premium_ips
\* carries the port of the call and has tls = true if and only if that port is
\* one of 443, 2053, 2083, 2087, 2096, 8443; hence all endpoints of one batch
\* carry the same tls value.
C21_TlsIffSecurePort ==
    (GenReturned("create_endpoint_list") \/ GenReturned("get_verified_premium_ips")) =>
        /\ \A i \in 1..Len(GenOutput) :
              /\ GenOutput[i].port = GFrame.args.port
              /\ GenOutput[i].tls \in BOOLEAN
              /\ GenOutput[i].tls <=> (GenOutput[i].port \in {443, 2053, 2083, 2087, 2096, 8443})
        /\ \A i, j \in 1..Len(GenOutput) : GenOutput[i].tls = GenOutput[j].tls

\* create_endpoint_list built a batch of at least two endpoints for port 2053,
\* a secure port other than 443, all with tls set.
C21_Witness ==
    /\ GenReturned("create_endpoint_list")
    /\ GFrame.args.port = 2053
    /\ Len(GenOutput) >= 2
    /\ \A i \in 1..Len(GenOutput) : GenOutput[i].tls = TRUE

\* The curated pool for a plain port: a batch with tls unset throughout.
PlainPortBatch ==
    /\ GenReturned("get_verified_premium_ips")
    /\ GFrame.args.port = 8080
    /\ Len(GenOutput) >= 2
    /\ \A i \in 1..Len(GenOutput) : GenOutput[i].tls = FALSE

\* The block specification does not parse: a prefix length outside 0..32 or a
\* host bit set.
Unparsable(cidr) ==
    \/ cidr.prefix < 0 \/ cidr.prefix > 32
    \/ cidr.address.lo % Pow2(32 - cidr.prefix) # 0
Parsable(cidr) == ~Unparsable(cidr)

\* C22: a call of generate_ips_from_cidr with a block specification that does
\* not parse returns the empty list; and a call of get_quality_optimized_ips that
\* iterates over OFFICIAL_IPV4_RANGES returns the candidates of all the blocks
\* that do parse, in list order, whether they come before or after one that
\* does not.
C22_ParseFailureYieldsNothing ==
    /\ (GenReturned("generate_ips_from_cidr") /\ Unparsable(GFrame.args.cidr)) =>
          (GFrame.ret # None /\ GenOutput = <<>>)
    /\ (GenReturned("get_quality_optimized_ips") /\ ~GFrame.args.enable_quality_filter) =>
          /\ GFrame.ret # None
          /\ GenOutput =
                extend_from_ranges(SelectSeq(GFrame.args.self.OFFICIAL_IPV4_RANGES, Parsable),
                                   1, GFrame.args.ips_per_range, TRUE, GFrame.args.seed, <<>>)

\* A call over a list whose first entry does not parse returned two addresses
\* of each of the fifteen blocks that follow it.
C22_Witness ==
    /\ GenReturned("get_quality_optimized_ips")
    /\ ~GFrame.args.enable_quality_filter
    /\ GFrame.args.ips_per_range = 2
    /\ Unparsable(GFrame.args.self.OFFICIAL_IPV4_RANGES[1])
    /\ Len(GenOutput) = 2 * Len(OFFICIAL_IPV4_RANGES)
    /\ \A k \in 1..Len(OFFICIAL_IPV4_RANGES) :
          \E i \in 1..Len(GenOutput) : InBlock(GenOutput[i], OFFICIAL_IPV4_RANGES[k])

\* A direct call with "10.0.0.1/24" returned the empty list.
UnparsableBlockReturned ==
    /\ GenReturned("generate_ips_from_cidr")
    /\ GFrame.args.cidr = Cidr(10, 0, 0, 1, 24)
    /\ GFrame.args.count = 10
    /\ GenOutput = <<>>

\* ------------------------------------------------------------------------
\* Properties of the pool of BatchIPTester.test_ips (checked under Spec)
\* ------------------------------------------------------------------------
\* How many entries of the list have the (ip, port) identity of e.
IdentityCount(lst, e) == Cardinality({k \in 1..Len(lst) : SameEndpoint(lst[k], e)})
SameIdentities(lst, locations) ==
    \A k \in 1..Len(locations) :
        IdentityCount(lst, locations[k]) = IdentityCount(locations, locations[k])

\* By the return of test_ips the i-th future is the task of the i-th endpoint,
\* and each task was started by a worker and left its connection phase once.
OneTaskPerEndpoint ==
    HasReturned =>
        /\ Len(futures) = total
        /\ \A i \in 1..total :
              /\ futures[i].location = ip_list[i]
              /\ futures[i].at = "end"
              /\ futures[i].state = "returned" => futures[i].conn # None

\* C23: each endpoint of the input list has exactly one probe task dispatched
\* for it, whose connection phase is started once, and the multiset of (ip, port)
\* identities of the returned results equals that of the input endpoints.
C23_OneResultPerEndpoint ==
    /\ OneTaskPerEndpoint
    /\ HasReturned =>
          /\ SameIdentities(Output, ip_list)
          /\ Len(Output) = Len(ip_list)

\* The same without a progress callback, where it holds.
OneResultPerEndpointWithoutCallback ==
    (HasReturned /\ ~progress_callback) =>
        /\ SameIdentities(Output, ip_list)
        /\ Len(Output) = Len(ip_list)

\* C24: at every moment of a batch the number of probe tasks executing at once
\* is at most max_workers, for every number of endpoints and every interleaving.
C24_AtMostMaxWorkersRunning ==
    Cardinality(Running) <= max_workers

\* A pool of width one with one task executing and another one queued behind it.
C24_Witness ==
    /\ max_workers = 1
    /\ Cardinality(Running) = 1
    /\ \E i \in Submitted : futures[i].state = "pending"

\* A pool of width two with two tasks executing at once.
PoolFull ==
    /\ max_workers = 2
    /\ Cardinality(Running) = 2

\* C25: the list `results` and the counter `completed` are written only by the
\* thread that runs test_ips, never by a step of a worker (a step that changes
\* `futures`); each write appends one result or adds one to the counter, so
\* under every interleaving every collected future has its entry in `results`
\* and every collected result has been counted.
C25_OnlyCollectorWrites ==
    /\ [][(results' # results \/ completed' # completed) =>
             (futures' = futures /\ pc \in {"run", "callback"})]_vars
    /\ [][/\ results' # results =>
                (Len(results') = Len(results) + 1
                    /\ SubSeq(results', 1, Len(results)) = results)
          /\ completed' # completed => completed' = completed + 1]_vars
    /\ [](/\ completed = Cardinality(yielded \cap ReturnedFutures)
          /\ Len(results) >= Cardinality(yielded)
          /\ \A i \in yielded :
                \E k \in 1..Len(results) :
                    results[k] = IF futures[i].state = "raised"
                                 THEN FaultResult(futures[i].location, futures[i].exception[1])
                                 ELSE futures[i].result)

\* One result has been collected and counted while a worker is still inside
\* another task.
C25_Witness ==
    /\ Len(results) = 1
    /\ completed = 1
    /\ Running # {}

\* C26: while the progress callback is executing, every worker inside a task
\* can take its next step, and the oldest queued task can be started as soon
\* as a worker of the pool is free: none of them waits for the callback to
\* return.
C26_CallbackStallsNoWorker ==
    pc = "callback" =>
        \A i \in Submitted :
            /\ (futures[i].state = "running" /\ futures[i].at = "tcp") =>
                  ENABLED ConnectionPhase(i)
            /\ (futures[i].state = "running" /\ futures[i].at = "speed") =>
                  ENABLED ThroughputPhase(i)
            /\ futures[i].state = "running" => ENABLED TaskRaises(i)
            /\ (/\ futures[i].state = "pending"
                /\ \A j \in 1..(i - 1) : futures[j].state # "pending"
                /\ Cardinality(Running) < max_workers) =>
                  ENABLED StartTask(i)

\* The callback is executing for the first task while the only worker of the
\* pool is in the connection phase of the second.
C26_Witness ==
    /\ pc = "callback"
    /\ current = 1
    /\ max_workers = 1
    /\ Len(futures) = 2
    /\ futures[2].state = "running" /\ futures[2].at = "tcp"

\* The callback is executing while a task is still queued and a worker is free.
QueuedDuringCallback ==
    /\ pc = "callback"
    /\ \E i \in Submitted : futures[i].state = "pending"
    /\ Cardinality(Running) < max_workers

\* How many addresses of the list lie in one of the blocks.
CountInBlocks(lst, ranges) ==
    Cardinality({i \in 1..Len(lst) : InSomeBlock(lst[i], ranges)})
PremiumBlocks == <<Cidr(104, 16, 0, 0, 13), Cidr(104, 24, 0, 0, 14), Cidr(108, 162, 192, 0, 18)>>
FallbackBlocks == <<Cidr(188, 114, 96, 0, 20)>>

\* C27: with quality filtering enabled and per-range quota q,
\* get_quality_optimized_ips first requests 3*q addresses from every premium
\* block, in premium-list order; it then requests q addresses from each fallback
\* block if the count accumulated from the premium blocks is below 10*q, and
\* requests nothing more otherwise; in the returned list every premium-block
\* address precedes every fallback-block address.
C27_PremiumFirstThenFallback ==
    (GenReturned("get_quality_optimized_ips") /\ GFrame.args.enable_quality_filter) =>
        LET q == GFrame.args.ips_per_range
            made == GFrame.generate_calls
            accumulated == CountInBlocks(GenOutput, PremiumBlocks)
        IN  /\ Len(made) >= Len(PremiumBlocks)
            /\ \A k \in 1..Len(PremiumBlocks) :
                  made[k] = [cidr |-> PremiumBlocks[k], count |-> 3 * q,
                             use_random |-> FALSE, optimize_selection |-> TRUE]
            /\ IF accumulated < 10 * q
               THEN /\ Len(made) = Len(PremiumBlocks) + Len(FallbackBlocks)
                    /\ \A k \in 1..Len(FallbackBlocks) :
                          made[Len(PremiumBlocks) + k] =
                              [cidr |-> FallbackBlocks[k], count |-> q,
                               use_random |-> FALSE, optimize_selection |-> TRUE]
               ELSE Len(made) = Len(PremiumBlocks)
            /\ \A i \in 1..Len(GenOutput) :
                  InSomeBlock(GenOutput[i], PremiumBlocks) \/ InSomeBlock(GenOutput[i], FallbackBlocks)
            /\ \A i, j \in 1..Len(GenOutput) :
                  (InSomeBlock(GenOutput[i], PremiumBlocks)
                      /\ InSomeBlock(GenOutput[j], FallbackBlocks)) => i < j

\* A call with quota 2 requested 6 addresses of each premium block, collected 18,
\* fewer than 20, and so requested 2 of the fallback block.
C27_Witness ==
    /\ GenReturned("get_quality_optimized_ips")
    /\ GFrame.args.enable_quality_filter
    /\ GFrame.args.ips_per_range = 2
    /\ Len(GFrame.generate_calls) = 4
    /\ CountInBlocks(GenOutput, PremiumBlocks) = 18
    /\ CountInBlocks(GenOutput, FallbackBlocks) = 2

\* A call with quota 0 collected nothing, which is not below 0, and requested
\* nothing of the fallback block.
FallbackNotRequested ==
    /\ GenReturned("get_quality_optimized_ips")
    /\ GFrame.args.enable_quality_filter
    /\ GFrame.args.ips_per_range = 0
    /\ Len(GFrame.generate_calls) = 3
    /\ GenOutput = <<>>

\* C28: in the large-block strategy, with S = min(count, max(10, count div 5))
\* sub-ranges and spacing I = max(1, usableHosts div (S * 256)), a call with
\* count >= 1 returns exactly count addresses, and the k-th of them (k from 0) is
\* network_address + 1 + i*I*256 + o with i = k div 8 < S the sub-range index
\* and o the (k mod 8)-th of the offsets 0, 1, 2, 3, 4, 32, 64, 128: increasing
\* sub-range index and, within a sub-range, the offsets in that order.
C28_LargeBlockPositions ==
    (LargeBlockCall /\ GFrame.at = "returned" /\ GFrame.args.count >= 1) =>
        LET count == GFrame.args.count
            network_address == GFrame.args.cidr.address
            usableHosts == Pow2(32 - GFrame.args.cidr.prefix) - 2
            S == Min2(count, Max2(10, count \div 5))
            I == Max2(1, usableHosts \div (S * 256))
            offsets == <<0, 1, 2, 3, 4, 32, 64, 128>>
        IN  /\ Len(GenOutput) = count
            /\ \A k \in 0..(count - 1) :
                  /\ k \div 8 < S
                  /\ GenOutput[k + 1] =
                        str(AddressPlus(network_address,
                                1 + ((k \div 8) * I * 256) + offsets[(k % 8) + 1]))

\* "104.16.0.0/13" with count 50: ten sub-ranges 204 * 256 addresses apart; the
\* last address returned is the second one of the seventh sub-range.
C28_Witness ==
    /\ LargeBlockCall /\ GFrame.at = "returned"
    /\ GFrame.args.cidr = Cidr(104, 16, 0, 0, 13)
    /\ GFrame.args.count = 50
    /\ Len(GenOutput) = 50
    /\ GenOutput[1] = <<104, 16, 0, 1>>
    /\ GenOutput[8] = <<104, 16, 0, 129>>
    /\ GenOutput[9] = <<104, 16, 204, 1>>
    /\ GenOutput[50] = <<104, 20, 200, 2>>

SmallBlockCall ==
    /\ gen # None
    /\ GFrame.fn = "generate_ips_from_cidr"
    /\ GFrame.args.optimize_selection /\ ~GFrame.args.use_random
    /\ ip_network(GFrame.args.cidr) # None
    /\ ip_network(GFrame.args.cidr)[1].num_addresses - 2 <= GFrame.args.count * subnet_size
NotEndingIn255(ip_string) == ip_string[4] # 255

\* C29: in the small-block strategy (usable hosts <= count * 256, optimized, not
\* random) the result is the ascending sequence network_address + 1,
\* network_address + 2, ... without the addresses whose last octet is 255, as
\* far as the first count of them, taken from the first min(2 * count, usable
\* hosts) candidate addresses.
C29_SmallBlockWalk ==
    (SmallBlockCall /\ GFrame.at = "returned") =>
        LET count == GFrame.args.count
            network_address == GFrame.args.cidr.address
            usableHosts == Pow2(32 - GFrame.args.cidr.prefix) - 2
            examined == Min2(2 * count, usableHosts)
            candidates == [j \in 1..examined |-> str(AddressPlus(network_address, j))]
            kept == SelectSeq(candidates, NotEndingIn255)
        IN  GenOutput = SubSeq(kept, 1, Min2(Max2(count, 0), Len(kept)))

\* "10.0.0.0/23" with count 255: the walk passes 10.0.0.255, which is left out,
\* and stops at 10.0.1.0, the 255th address collected.
C29_Witness ==
    /\ SmallBlockCall /\ GFrame.at = "returned"
    /\ GFrame.args.cidr = Cidr(10, 0, 0, 0, 23)
    /\ GFrame.args.count = 255
    /\ Len(GenOutput) = 255
    /\ GenOutput[1] = <<10, 0, 0, 1>>
    /\ GenOutput[254] = <<10, 0, 0, 254>>
    /\ GenOutput[255] = <<10, 0, 1, 0>>

\* "10.0.0.0/24" with count 300: the walk ends with the usable hosts, 254
\* addresses.
WalkEndsWithBlock ==
    /\ SmallBlockCall /\ GFrame.at = "returned"
    /\ GFrame.args.cidr = Cidr(10, 0, 0, 0, 24)
    /\ GFrame.args.count = 300
    /\ Len(GenOutput) = 254
    /\ GenOutput[254] = <<10, 0, 0, 254>>

\* ------------------------------------------------------------------------
\* Termination of test_ips (checked under FairSpec)
\* ------------------------------------------------------------------------
\* Every connection phase makes at most retries + 1 attempts and every throughput
\* phase tries at most five candidates, whatever the network answers.
ProbesAreBounded ==
    /\ \A retries \in 0..MaxRetries :
          \A outs \in SeqsOfLen(AttemptOutcomes, retries + 1) :
              test_tcp_delay(retries, outs).attempts \in 1..(retries + 1)
    /\ \A url \in CustomUrls :
          /\ Len(test_paths(url)) <= 5
          /\ \A outs \in CandidateAnswers : test_download_speed(url, outs).tried \in 1..5

\* C30: every probe ends after at most retries + 1 connection attempts followed
\* by at most five throughput candidates; under fair scheduling every task
\* submitted is eventually finished, a finished task stays finished, and
\* test_ips eventually returns, with every endpoint's task at its end.
C30_EveryTaskRunsToCompletion ==
    /\ ProbesAreBounded
    /\ \A i \in 1..MaxEndpoints : (i \in Submitted) ~> (i \in Submitted /\ FutureDone(i))
    /\ [][\A i \in Submitted : FutureDone(i) => futures'[i] = futures[i]]_vars
    /\ <>(pc = "done")
    /\ [](pc = "done" =>
            /\ HasReturned
            /\ Len(futures) = total
            /\ \A i \in 1..total : FutureDone(i) /\ futures[i].at = "end")

\* test_ips has returned from a batch of two endpoints whose tasks both went
\* through the connection phase and the throughput phase.
C30_Witness ==
    /\ pc = "done"
    /\ HasReturned
    /\ total = 2
    /\ \A i \in 1..total :
          /\ futures[i].state = "returned"
          /\ futures[i].conn # None
          /\ futures[i].speed_runs = 1

\* ------------------------------------------------------------------------
\* test_ips followed by filter_best_ips, as run() calls them (SpecSelect)
\* ------------------------------------------------------------------------
\* The selection arguments run() passes on (main.py lines 237-242).
SelectArgs == [max_delay : {300}, min_speed : {0, 10}, top_n : {10}]

\* main.py lines 227-242: test_ips has returned; the list it returned is passed
\* to filter_best_ips.
CallFilterBestIps ==
    /\ pc = "done"
    /\ flt = None
    /\ \E a \in SelectArgs :
          flt' = Some(FilterFrame(returned[1], a.max_delay, a.min_speed, a.top_n))
    /\ UNCHANGED <<batchVars, tcp, speed, app, gen>>

NextSelect ==
    \/ Next
    \/ CallFilterBestIps
    \/ FilterBestIps

SpecSelect == Init /\ [][NextSelect]_vars

\* ------------------------------------------------------------------------
\* C31: results are never modified
\* ------------------------------------------------------------------------
\* What the collecting loop has done with the results of the tasks that
\* returned: each collected task's result object is an entry of the collection
\* as the probe returned it, and the callback was handed that same object.
HandedOverUnchanged ==
    /\ \A i \in yielded : futures[i].state = "returned" =>
            \E k \in 1..Len(results) : results[k] = futures[i].result
    /\ \A c \in 1..Len(calls) : calls[c].result = futures[calls[c].future].result

\* The list the caller passed to filter_best_ips is as test_ips returned it.
InputAsPassed == flt # None => FFrame.results = returned[1]

\* C31: filter_best_ips has no effect on its input: during and after the call the
\* list the caller passed has the same length and holds the same results, field
\* for field, in the same order; and the coordinator never modifies a result
\* after the probe has returned it: the result object of a finished task no
\* longer changes, an entry of the collection is never changed or removed, and
\* every collected result is in the collection exactly as the probe returned it.
C31_ResultsNeverMutated ==
    /\ [](InputAsPassed /\ HandedOverUnchanged)
    /\ [][/\ (flt # None /\ flt' # None) => flt'[1].results = flt[1].results
          /\ Len(results') >= Len(results)
          /\ \A k \in 1..Len(results) : results'[k] = results[k]
          /\ \A i \in 1..Len(futures) :
                futures[i].state = "returned" => futures'[i] = futures[i]
          /\ returned # None => returned' = returned]_vars

\* Reached: a batch of two whose results both qualify came back in the order
\* (slower, faster); filter_best_ips returned them in the opposite order, and
\* the caller's list still has the order of arrival.
C31_Witness ==
    /\ flt # None
    /\ FFrame.at = "returned"
    /\ Len(FFrame.results) = 2
    /\ FFrame.results[1] # FFrame.results[2]
    /\ FFrame.ret[1] = <<FFrame.results[2], FFrame.results[1]>>
    /\ FFrame.results = returned[1]

\* Reached as well: a failed result is left out of the selection and stays in
\* the caller's list.
FailureStaysInInput ==
    /\ flt # None
    /\ FFrame.at = "returned"
    /\ \E k \in 1..Len(FFrame.results) :
          /\ ~FFrame.results[k].success
          /\ \A j \in 1..Len(FFrame.ret[1]) : FFrame.ret[1][j] # FFrame.results[k]

\* ------------------------------------------------------------------------
\* C32: an exception of the progress callback
\* ------------------------------------------------------------------------
\* The step in which the call of the callback ends, by a return or by an
\* exception.
CallbackEnds == pc = "callback" /\ pc' = "run"

\* C32: an exception raised by the progress callback is contained without
\* disturbing the result collection: the step in which the callback ends adds,
\* removes or replaces no entry, and in the output the endpoint whose completion
\* triggered the callback is represented by exactly one result, the one its
\* probe returned.
C32_CallbackExceptionAddsNothing ==
    /\ [][CallbackEnds => results' = results]_vars
    /\ [](HasReturned =>
            \A c \in 1..Len(calls) :
                LET location == futures[calls[c].future].location
                IN  /\ IdentityCount(Output, location) = IdentityCount(ip_list, location)
                    /\ \A k \in 1..Len(Output) :
                          SameEndpoint(Output[k], location) => Output[k] = calls[c].result)

\* What does hold: the exception does not leave test_ips (control is back in
\* the loop), the entries appended before the callback was called stay as they
\* are, the last of them being the result the probe returned, and a callback
\* that returns leaves the collection alone.
CallbackExceptionContained ==
    /\ [][CallbackEnds =>
            /\ Len(results') >= Len(results)
            /\ SubSeq(results', 1, Len(results)) = results
            /\ results[Len(results)] = futures[current].result]_vars
    /\ [][CallbackReturns => results' = results]_vars

\* ------------------------------------------------------------------------
\* C33: the counts the progress callback receives
\* ------------------------------------------------------------------------
\* The k-th invocation receives completed = k and total = N, so the count
\* starts at 1, goes up by one from one invocation to the next and stays
\* within total.
CallbackCountsInSequence ==
    \A k \in 1..Len(calls) :
        /\ calls[k].completed = k
        /\ calls[k].total = total
        /\ calls[k].completed <= calls[k].total

\* C33: across one batch the k-th invocation of the progress callback receives
\* completedCount = k and totalCount = N, never more than N, and while the
\* callback runs completedCount equals the number of results held in the
\* collection.
C33_CallbackCounts ==
    /\ CallbackCountsInSequence
    /\ pc = "callback" => calls[Len(calls)].completed = Len(results)

\* The count and the collection agree as long as no task has raised and no
\* earlier callback has raised.
CountIsCollectionSizeWithoutFaults ==
    (pc = "callback" /\ \A i \in yielded : futures[i].state = "returned"
                     /\ Len(results) <= Cardinality(yielded)) =>
        calls[Len(calls)].completed = Len(results)

\* Reached: the callback is running for the second completion of a batch.
SecondInvocation == pc = "callback" /\ Len(calls) = 2

\* ------------------------------------------------------------------------
\* C34: the sockets of test_tcp_delay
\* ------------------------------------------------------------------------
\* The kinds of the answers received so far.
KindsAnswered == {Frame.answers[k].kind : k \in 1..Len(Frame.answers)}

\* C34: in test_tcp_delay every socket opened for an attempt is closed before
\* the next attempt starts and before the function returns, on every path: at
\* most one socket is open at any time, it is the one bound to `sock`, none is
\* open at the head of the loop, at the start of an attempt, after a break or
\* once the function has returned, and every socket created has been closed by
\* then.
C34_SocketsClosed ==
    tcp # None =>
        /\ Frame.open \in {0, 1}
        /\ Frame.open = 1 <=> Frame.sock = "open"
        /\ Frame.at \in {"for", "try", "after", "returned"} => Frame.open = 0
        /\ Frame.open <= Frame.sockets

\* Reached: the function returned a delay from its third socket, after a
\* timeout and a network error on the first two, and no socket is open.
C34_Witness ==
    /\ tcp # None
    /\ Frame.at = "returned"
    /\ Frame.ret[1].success
    /\ Frame.sockets = 3
    /\ {"timeout", "oserror"} \subseteq KindsAnswered
    /\ Frame.open = 0

\* Reached as well: the function returned after a refusal, and after an
\* exception that is not an OSError, with its one socket closed; and it
\* returned without ever having had a socket.
ReturnedAfterRefusal ==
    /\ tcp # None
    /\ Frame.at = "returned"
    /\ Frame.sockets = 1 /\ Frame.open = 0 /\ Frame.sock = "closed"
    /\ KindsAnswered = {"refused"}

ReturnedAfterOtherError ==
    /\ tcp # None
    /\ Frame.at = "returned"
    /\ Frame.sockets = 1 /\ Frame.open = 0 /\ Frame.sock = "closed"
    /\ KindsAnswered = {"exception"}

ReturnedWithoutSocket ==
    /\ tcp # None
    /\ Frame.at = "returned"
    /\ Frame.sockets = 0
    /\ KindsAnswered = {"nosocket"}

\* ------------------------------------------------------------------------
\* C35: the arithmetic of the quota
\* ------------------------------------------------------------------------
\* The entries first..last of the list all lie in the block.
SliceInBlock(lst, first, last, cidr) ==
    /\ Len(lst) >= last
    /\ \A i \in first..last : InBlock(lst[i], cidr)

\* C35: with quality filtering enabled and a per-range quota q >= 1 the premium
\* blocks together contribute at most 9*q addresses, fewer than the threshold
\* 10*q, so the fallback block is sampled; the result holds 3*q addresses of the
\* first premium block, then 3*q of the second, then 3*q of the third, then q of
\* the fallback block, 10*q in all (the shipped blocks are large enough for
\* every quota up to MaxQuota).
C35_TenTimesQuota ==
    (/\ GenReturned("get_quality_optimized_ips")
     /\ GFrame.args.enable_quality_filter
     /\ GFrame.args.ips_per_range >= 1) =>
        LET q == GFrame.args.ips_per_range
            from_premium == CountInBlocks(GenOutput, PremiumBlocks)
        IN  /\ from_premium <= 9 * q
            /\ from_premium < 10 * q
            /\ Len(GFrame.generate_calls) = Len(PremiumBlocks) + Len(FallbackBlocks)
            /\ GFrame.generate_calls[Len(PremiumBlocks) + 1].cidr = FallbackBlocks[1]
            /\ \A k \in 1..Len(PremiumBlocks) :
                  SliceInBlock(GenOutput, (k - 1) * 3 * q + 1, k * 3 * q, PremiumBlocks[k])
            /\ SliceInBlock(GenOutput, 9 * q + 1, 10 * q, FallbackBlocks[1])
            /\ Len(GenOutput) = 10 * q

\* Reached: a call with quota 22, for which the third premium block (a /18 asked
\* for 66 addresses) and the fallback block (a /20 asked for 22) are walked
\* sequentially, returned 198 premium addresses and 22 of the fallback block.
C35_Witness ==
    /\ GenReturned("get_quality_optimized_ips")
    /\ GFrame.args.enable_quality_filter
    /\ GFrame.args.ips_per_range = 22
    /\ CountInBlocks(GenOutput, PremiumBlocks) = 198
    /\ CountInBlocks(GenOutput, FallbackBlocks) = 22
    /\ Len(GenOutput) = 220

\* Reached as well: the smallest quota, 1, returned 3 + 3 + 3 + 1 addresses.
QuotaOne ==
    /\ GenReturned("get_quality_optimized_ips")
    /\ GFrame.args.enable_quality_filter
    /\ GFrame.args.ips_per_range = 1
    /\ Len(GenOutput) = 10

\* ------------------------------------------------------------------------
\* C36: the endpoints run() hands to the batch
\* ------------------------------------------------------------------------
\* The size of the curated pool for a location hint: 60 + 15 + 5 for HKG,
\* 50 + 20 + 8 for the US west coast, 45 + 25 + 8 for the other Asia-Pacific
\* hints, and all 70 + 27 + 8 otherwise.
CuratedSize(hint) ==
    IF hint = Some("HKG") THEN 80
    ELSE IF hint \in {Some("LAX"), Some("SFO"), Some("SJC"), Some("SEA")} THEN 78
    ELSE IF hint \in {Some("NRT"), Some("ICN"), Some("SIN"), Some("TPE")} THEN 78
    ELSE 105

\* The port run() passes on: the one of the command line, 443 when it is 0.
PortPassed == IF GFrame.args.port = 0 THEN 443 ELSE GFrame.args.port

ThirtyTakesCuratedPool ==
    /\ GenReturned("run")
    /\ GFrame.args.max_ips = 30
    /\ GFrame.args.iata = Some("")
    /\ Len(GenOutput) = 105

ThirtyOneGenerates ==
    /\ GenReturned("run")
    /\ GFrame.args.max_ips = 31
    /\ GFrame.provider_call[1].method = "create_endpoint_list"
    /\ Len(GenOutput) = 20

====
